---- MODULE Spec2Model ----
(***************************************************************************)
(* Model of the easystaff-helper-bot conversion core:                      *)
(*   - CacheRepository (app/database/repositories/cache_repo.py)           *)
(*   - MessageHandler.handle_conversion (app/handlers/message_handlers.py) *)
(*   - Scheduler._update_rate (app/services/scheduler.py)                  *)
(*   - _parse_rate_text (app/services/converters/easystaff_service.py)     *)
(*   - AsyncDatabaseConnection (app/database/connection_async.py)          *)
(*   - connect_with_retries and the start of main (app/main.py)            *)
(*   - cmd_start, cmd_stats (app/handlers/commands.py)                     *)
(*                                                                         *)
(* Concurrency model: one asyncio event loop.  An action is the code a     *)
(* coroutine runs between two suspension points (await on network, DB or   *)
(* Telegram I/O); file access in CacheRepository is synchronous and never  *)
(* yields, so a whole save() or load() lies inside one action.             *)
(*                                                                         *)
(* Numbers: Python floats are modelled as exact rationals <<n, d>>, d > 0. *)
(* None is the empty tuple.                                                *)
(***************************************************************************)
EXTENDS Integers, Sequences, FiniteSets, TLC

VARIABLES
    file,      \* the cache file on disk: [exists, readable, bytes]
    clock,     \* wall clock read by datetime.now(timezone.utc)
    runs,      \* handler / job invocations started so far
    stats,     \* MessageHandler.stats: "None" or "repo"
    pc,        \* per task: the suspension point it waits at
    text,      \* per request: message.text
    rub,       \* per request: rub_amount
    xe,        \* per request: eur_xe_raw
    easy,      \* per request: easy_rate
    cache,     \* per request: the local dict `cache`
    replies,   \* per task: replies sent to the user, in order
    result,    \* per request: the values of the final conversion reply
    calls,     \* per task: provider / cache calls made, in order
    notes,     \* per task: admin notifications sent, in order
    fa, fb,    \* inputs of the pure recommendation rule
    fout,      \* output of the pure recommendation rule
    use_db,    \* Settings.USE_DB
    mainpc,    \* where main() is: "start", "boot", "polling", "cancelling",
               \* "stopping", "closing_session", "closing_db", "complete"
    boot,      \* the locals of connect_with_retries
    conn,      \* AsyncDatabaseConnection.conn: a handle number, 0 for None
    live,      \* handles established and not closed
    made,      \* handles established so far
    ops,       \* per database operation: the locals of its get_cursor() call
    closer,    \* the locals of a close() call
    ncalls,    \* get_cursor() and close() calls started so far
    shutdown   \* shutdown_event, and the clean-up steps main() has done

dbvars == <<use_db, mainpc, boot, conn, live, made, ops, closer, ncalls,
           shutdown>>

vars == <<file, clock, runs, stats, pc, text, rub, xe, easy, cache,
          replies, result, calls, notes, fa, fb, fout,
          use_db, mainpc, boot, conn, live, made, ops, closer, ncalls,
          shutdown>>

----------------------------------------------------------------------------
(* Bounds of the model *)

\* handler and job invocations explored in one behaviour
MaxRuns == 2
\* largest raw value (whole EUR) fed to the pure recommendation rule
MaxRaw == 135
\* most decimals of a float taken over into its Decimal
MaxPlaces == 6
\* the floats fed to the presentation step: at most MaxDecimals decimals,
\* decimal exponent at most MaxExponent
MaxDecimals == 4
MaxExponent == 27

Requests == {"r1", "r2"}
Jobs == {"j1"}
Commands == {"c1"}
Tasks == Requests \cup Jobs \cup Commands

None == << >>

----------------------------------------------------------------------------
(* Rational arithmetic standing for Python float arithmetic *)

Rat(n) == <<n, 1>>
RLt(a, b) == a[1] * b[2] < b[1] * a[2]
RLe(a, b) == a[1] * b[2] <= b[1] * a[2]
REq(a, b) == a[1] * b[2] = b[1] * a[2]
RSub(a, b) == <<a[1] * b[2] - b[1] * a[2], a[2] * b[2]>>
RAbs(a) == IF a[1] < 0 THEN <<0 - a[1], a[2]>> ELSE a
RMulInt(a, k) == <<a[1] * k, a[2]>>
\* a / b for b # 0, keeping the denominator positive
RDiv(a, b) ==
    IF b[1] < 0 THEN <<0 - a[1] * b[2], 0 - a[2] * b[1]>>
    ELSE <<a[1] * b[2], a[2] * b[1]>>
\* Python min(a, b) / max(a, b): the first argument wins ties
RMin(a, b) == IF RLt(b, a) THEN b ELSE a
RMax(a, b) == IF RLt(a, b) THEN b ELSE a

\* Python truthiness of an Optional[float]: None and 0.0 are falsy
Truthy(x) == x # None /\ x[1] # 0

----------------------------------------------------------------------------
(* Text <-> float conversions.  A text is a sequence of one-character     *)
(* strings.                                                                *)

DigitChars == <<"0", "1", "2", "3", "4", "5", "6", "7", "8", "9">>
IsDigit(c) == \E i \in 1..10 : DigitChars[i] = c
DigitVal(c) == (CHOOSE i \in 1..10 : DigitChars[i] = c) - 1

RECURSIVE Pow10(_)
Pow10(k) == IF k = 0 THEN 1 ELSE 10 * Pow10(k - 1)

RECURSIVE DigitsToInt(_)
DigitsToInt(s) ==
    IF Len(s) = 0 THEN 0
    ELSE 10 * DigitsToInt(SubSeq(s, 1, Len(s) - 1)) + DigitVal(s[Len(s)])

RECURSIVE Digits(_)
Digits(m) ==
    IF m < 10 THEN <<DigitChars[m + 1]>>
    ELSE Digits(m \div 10) \o <<DigitChars[(m % 10) + 1]>>

RECURSIVE PadDigits(_, _)
PadDigits(m, k) ==
    IF k = 0 THEN << >>
    ELSE PadDigits(m \div 10, k - 1) \o <<DigitChars[(m % 10) + 1]>>

\* the float a decimal literal denotes, with trailing zeros dropped
RECURSIVE Norm(_)
Norm(r) ==
    IF r[2] > 1 /\ r[1] % 10 = 0 THEN Norm(<<r[1] \div 10, r[2] \div 10>>)
    ELSE r

CountDots(s) == Len(SelectSeq(s, LAMBDA c : c = "."))
IndexOfDot(s) == CHOOSE i \in 1..Len(s) : s[i] = "."

\* Python float(s) on texts over digits, '.', '-' and other characters.
\* [ok |-> FALSE] is ValueError.  (Exponents, inf/nan, '+', '_' and
\* surrounding whitespace, which float() also accepts, are not in the
\* alphabet the model feeds it.)
PyFloat(s) ==
    LET neg  == Len(s) > 0 /\ s[1] = "-"
        body == IF neg THEN Tail(s) ELSE s
        wellFormed ==
            /\ \A i \in 1..Len(body) : IsDigit(body[i]) \/ body[i] = "."
            /\ CountDots(body) <= 1
            /\ \E i \in 1..Len(body) : IsDigit(body[i])
        ip   == IF CountDots(body) = 1
                THEN SubSeq(body, 1, IndexOfDot(body) - 1) ELSE body
        fp   == IF CountDots(body) = 1
                THEN SubSeq(body, IndexOfDot(body) + 1, Len(body)) ELSE << >>
        mag  == DigitsToInt(ip \o fp)
    IN  IF wellFormed
        THEN [ok |-> TRUE,
              v  |-> Norm(<<IF neg THEN 0 - mag ELSE mag, Pow10(Len(fp))>>)]
        ELSE [ok |-> FALSE, v |-> None]

\* repr(x) of a float with a short decimal expansion, as json.dump writes it:
\* 80.0 -> "80.0", 62.5 -> "62.5", -80.0 -> "-80.0"
FloatRepr(r) ==
    LET q    == Norm(r)
        mag  == IF q[1] < 0 THEN 0 - q[1] ELSE q[1]
        k    == Len(Digits(q[2])) - 1
        sign == IF q[1] < 0 THEN <<"-">> ELSE << >>
    IN  sign \o Digits(mag \div q[2]) \o <<".">>
             \o (IF k = 0 THEN <<"0">> ELSE PadDigits(mag % q[2], k))

Spaces == {" ", "nbsp", "nnbsp"}

\* _parse_rate_text: drop spaces / NBSP / NNBSP, ',' -> '.', keep digits,
\* dots and a minus that comes first, then float()
_parse_rate_text(t) ==
    LET s1 == SelectSeq(t, LAMBDA c : c \notin Spaces)
        s2 == [i \in 1..Len(s1) |-> IF s1[i] = "," THEN "." ELSE s1[i]]
        F[i \in 0..Len(s2)] ==
            IF i = 0 THEN << >>
            ELSE IF IsDigit(s2[i]) \/ s2[i] = "." \/ (s2[i] = "-" /\ F[i - 1] = << >>)
                 THEN F[i - 1] \o <<s2[i]>>
                 ELSE F[i - 1]
    IN  PyFloat(F[Len(s2)])

----------------------------------------------------------------------------
(* The cache file and CacheRepository.                                     *)
(* File bytes are a sequence of JSON chunks <<type, payload>> as json.dump *)
(* emits them: "{", "key" (a quoted member name with its colon), "num",   *)
(* "str", "null", "}"; "[" and "]" for arrays; "bad" is a byte sequence   *)
(* that is not valid UTF-8.  A Python dict is a sequence of <<key, value>> *)
(* pairs.                                                                  *)

LBrace == <<"{", << >>>>
RBrace == <<"}", << >>>>
LBracket == <<"[", << >>>>
RBracket == <<"]", << >>>>
BadByte == <<"bad", << >>>>
KeyTok(k) == <<"key", <<k>>>>
NumTok(chars) == <<"num", chars>>
StrTok(v) == <<"str", v>>
NullTok == <<"null", << >>>>

EmptyDict == << >>
DictHas(d, k) == \E i \in 1..Len(d) : d[i][1] = k
\* dict.get(k): the value of the last member named k, or None
DictGet(d, k) ==
    IF DictHas(d, k)
    THEN d[CHOOSE i \in 1..Len(d) :
               d[i][1] = k /\ \A j \in (i + 1)..Len(d) : d[j][1] # k][2]
    ELSE None
DictKeys(d) == {d[i][1] : i \in 1..Len(d)}

\* datetime.now(timezone.utc).isoformat(): the instant with a +00:00 offset
IsoFormatUtc(now) == <<now, "+00:00">>

\* the dict save() builds (cache_repo.py 117-120)
CacheData(rate, now) ==
    <<<<"rate", rate>>, <<"updated_at", IsoFormatUtc(now)>>>>

\* json.dump of that dict: None as null, floats by repr, strings quoted
JsonDump(d) ==
    LET Member(i) ==
            <<KeyTok(d[i][1]),
              IF d[i][2] = None THEN NullTok
              ELSE IF d[i][1] = "rate" THEN NumTok(FloatRepr(d[i][2]))
              ELSE StrTok(d[i][2])>>
        M[i \in 0..Len(d)] ==
            IF i = 0 THEN << >> ELSE M[i - 1] \o Member(i)
    IN  <<LBrace>> \o M[Len(d)] \o <<RBrace>>

IsScalarTok(t) ==
    (t[1] = "num" /\ PyFloat(t[2]).ok) \/ t[1] = "str" \/ t[1] = "null"
ScalarVal(t) ==
    IF t[1] = "num" THEN PyFloat(t[2]).v
    ELSE IF t[1] = "null" THEN None
    ELSE t[2]

\* json.load(f) on the file's bytes: decoding to text comes first, then the
\* parse.  Only complete documents parse: an object of scalar members, an
\* empty array, or a bare scalar.
JsonLoad(bytes) ==
    LET n == Len(bytes)
        isObject ==
            /\ n >= 2 /\ n % 2 = 0
            /\ bytes[1][1] = "{" /\ bytes[n][1] = "}"
            /\ \A i \in 2..(n - 1) :
                   IF i % 2 = 0 THEN bytes[i][1] = "key"
                                ELSE IsScalarTok(bytes[i])
        isArray  == n = 2 /\ bytes[1][1] = "[" /\ bytes[2][1] = "]"
        isScalar == n = 1 /\ IsScalarTok(bytes[1])
    IN  IF \E i \in 1..n : bytes[i][1] = "bad"
        THEN [status |-> "UnicodeDecodeError", isDict |-> FALSE, value |-> EmptyDict]
        ELSE IF isObject
        THEN [status |-> "ok", isDict |-> TRUE,
              value  |-> [j \in 1..((n - 2) \div 2) |->
                              <<bytes[2 * j][2][1], ScalarVal(bytes[2 * j + 1])>>]]
        ELSE IF isArray \/ isScalar
        THEN [status |-> "ok", isDict |-> FALSE, value |-> EmptyDict]
        ELSE [status |-> "JSONDecodeError", isDict |-> FALSE, value |-> EmptyDict]

NoFile == [exists |-> FALSE, readable |-> TRUE, bytes |-> << >>]

\* CacheRepository.load(): [raised, ret].  JSONDecodeError and IOError are
\* caught (-> {}); any other exception leaves the method.
load(f) ==
    IF ~f.exists THEN [raised |-> "none", ret |-> EmptyDict]
    ELSE IF ~f.readable THEN [raised |-> "none", ret |-> EmptyDict]
    ELSE LET r == JsonLoad(f.bytes)
         IN  IF r.status = "UnicodeDecodeError"
             THEN [raised |-> "UnicodeDecodeError", ret |-> EmptyDict]
             ELSE IF r.status = "JSONDecodeError"
             THEN [raised |-> "none", ret |-> EmptyDict]
             ELSE [raised |-> "none",
                   ret    |-> IF r.isDict THEN r.value ELSE EmptyDict]

\* How the file system treats one save(): IoOk, the open (or mkdir) fails
\* with the file untouched, or the write fails after k chunks reached the
\* disk (k < the document's length).
IoOk == -1
IoOpenFails == -2

\* open(path, 'a'): the file exists and keeps its bytes
OpenAppend(f) == [exists |-> TRUE, readable |-> f.readable, bytes |-> f.bytes]

\* open(path, 'w'): the file exists and is empty
OpenW(f) == [exists |-> TRUE, readable |-> f.readable, bytes |-> << >>]

\* a save() that writes in the same way but reports success whatever happened
SaveReportsSuccess(f, rate, now, io) ==
    LET doc == JsonDump(CacheData(rate, now))
    IN  IF io = IoOpenFails THEN [file |-> f, ret |-> TRUE]
        ELSE IF io = IoOk
        THEN [file |-> [OpenW(f) EXCEPT !.bytes = @ \o doc], ret |-> TRUE]
        ELSE [file |-> [OpenW(f) EXCEPT !.bytes = @ \o SubSeq(doc, 1, io)],
              ret  |-> TRUE]

\* CacheRepository.save(rate): [file, ret] under file-system behaviour io.
\* IOError is caught and turned into ret = FALSE.
save(f, rate, now, io) ==
    LET doc == JsonDump(CacheData(rate, now))
    IN  IF io = IoOpenFails THEN [file |-> f, ret |-> FALSE]
        ELSE IF io = IoOk
        THEN [file |-> [OpenW(f) EXCEPT !.bytes = @ \o doc], ret |-> TRUE]
        ELSE [file |-> [OpenW(f) EXCEPT !.bytes = @ \o SubSeq(doc, 1, io)],
              ret  |-> FALSE]

\* the file-system failures explored: the open fails, the write fails right
\* after the open truncated the file, or in the middle of the record
IoFailures == {IoOpenFails, 0, 3}

----------------------------------------------------------------------------
(* Rate reconciliation (message_handlers.py 136-151, formatters.py)        *)

\* percent_diff = diff / min(xe, easy) * 100
PercentDiff(a, b) == RMulInt(RDiv(RAbs(RSub(a, b)), RMin(a, b)), 100)

\* WithinThreshold with a strict comparison
WithinThresholdStrict(p) == RLt(p, Rat(10))

\* percent_diff <= 10 (message_handlers.py 139)
WithinThreshold(p) == RLe(p, Rat(10))

\* used_value_raw
Recommend(a, b) ==
    IF WithinThreshold(PercentDiff(a, b)) THEN RMax(a, b) ELSE RMin(a, b)

\* A Decimal is a coefficient m and an exponent e: the value m * 10^e.

\* Decimal(str(x)) of a float x held as a rational: the digits of repr(x)
\* (the floats met here have at most MaxPlaces decimals)
RECURSIVE DecimalScaled(_, _, _)
DecimalScaled(n, d, k) ==
    IF n % d = 0 \/ k = MaxPlaces THEN [m |-> n \div d, e |-> 0 - k]
    ELSE DecimalScaled(n * 10, d, k + 1)

DecimalOf(x) ==
    IF x[1] >= 0 THEN DecimalScaled(x[1], x[2], 0)
    ELSE [DecimalScaled(0 - x[1], x[2], 0) EXCEPT !.m = 0 - @]

\* number of digits of a coefficient
NumDigits(m) == Len(Digits(m))

\* a rounding rule that rounds every discarded fraction up (ceiling)
RoundsUpCeiling(rounding, r, k) == rounding = "ROUND_HALF_UP" /\ r > 0

\* a rounding rule that never rounds up
RoundsUpNever(rounding, r, k) == FALSE

\* whether the discarded digits r (of k digits) raise the last kept digit:
\* ROUND_DOWN never, ROUND_HALF_UP from one half on
RoundsUp(rounding, r, k) == rounding = "ROUND_HALF_UP" /\ 2 * r >= Pow10(k)

\* Decimal.quantize(Decimal with exponent exp, rounding) in the default
\* context (28 digits): InvalidOperation when the coefficient of the result
\* would have more than 28 digits.  When digits are only padded the value
\* is returned as it came (same value, zeros not written out).
quantize(d, exp, rounding) ==
    LET mag   == IF d.m < 0 THEN 0 - d.m ELSE d.m
        shift == d.e - exp
        k     == 0 - shift
        q     == mag \div Pow10(k)
        r     == mag % Pow10(k)
        up    == IF RoundsUp(rounding, r, k) THEN q + 1 ELSE q
    IN  IF shift >= 0
        THEN IF mag > 0 /\ NumDigits(mag) + shift > 28
             THEN [raised |-> TRUE, m |-> 0, e |-> exp]
             ELSE [raised |-> FALSE, m |-> d.m, e |-> d.e]
        ELSE [raised |-> FALSE, m |-> IF d.m < 0 THEN 0 - up ELSE up, e |-> exp]

\* float(d) / int(d) of a Decimal, as a rational
FloatOf(d) ==
    IF d.e >= 0 THEN <<d.m * Pow10(d.e), 1>> ELSE <<d.m, Pow10(0 - d.e)>>

\* Decimal(str(x)).quantize(Decimal("0.00"), rounding=ROUND_DOWN)
Trunc2Decimal(d) == quantize(d, -2, "ROUND_DOWN")

\* Decimal(str(x)).quantize(Decimal("1"), rounding=ROUND_HALF_UP)
RoundDecimal(d) == quantize(d, 0, "ROUND_HALF_UP")

\* trunc2(x) -> float (formatters.py 61-76).  The values of the
\* conversion handler stay far below 10^26, where quantize cannot raise.
trunc2(x) == FloatOf(Trunc2Decimal(DecimalOf(x)))

\* int(Decimal(str(x)).quantize(Decimal("1"), rounding=ROUND_HALF_UP))
RoundedToUse(x) == FloatOf(RoundDecimal(DecimalOf(x)))[1]

NoResult == [present |-> FALSE]

\* the values the final reply is formatted from (message_handlers.py 157-165)
ConversionResult(a, b, rate, c) ==
    [present    |-> TRUE,
     xe_raw     |-> a,
     easy_raw   |-> b,
     percent    |-> PercentDiff(a, b),
     used_raw   |-> Recommend(a, b),
     xe_show    |-> trunc2(a),
     easy_show  |-> trunc2(b),
     used_show  |-> trunc2(Recommend(a, b)),
     rounded    |-> RoundedToUse(Recommend(a, b)),
     rate       |-> rate,
     updated_at |-> DictGet(c, "updated_at")]

----------------------------------------------------------------------------
(* Inputs *)

\* message.text of incoming messages
MessageTexts ==
    { <<"a", "b", "c">>, <<"-", "5">>, <<"0">>,
      <<"9", "9", "9", "9">>, <<"1", "0", "0", "0", "0">> }

\* what XeConverterService.get_rate may return (Optional[float])
XeResults == {None, Rat(0), Rat(-100), Rat(110)}

\* inner_text of the Easystaff EUR value element
PageTexts ==
    { <<"1", "0", "0">>, <<"6", "2", ",", "5">>, <<"0">>,
      <<"-", "8", "0">>, <<"n", "/", "a">> }

\* what EasystaffService.get_rate may return: a parsed page text; the
\* callers also provide for None
EasyResults ==
    {None} \cup {_parse_rate_text(t).v : t \in {u \in PageTexts : _parse_rate_text(u).ok}}

\* invocations use up the run budget
CanStart == runs < MaxRuns

\* minimum amount accepted by handle_conversion
MinAmount == 10000

----------------------------------------------------------------------------
(* Observations kept for the properties *)

\* what a reader finds in the file: no file, one complete rate record, or
\* anything else (empty, truncated, foreign content)
FileKind(f) ==
    IF ~f.exists THEN "absent"
    ELSE IF /\ f.readable
            /\ JsonLoad(f.bytes).status = "ok"
            /\ JsonLoad(f.bytes).isDict
            /\ DictKeys(JsonLoad(f.bytes).value) = {"rate", "updated_at"}
         THEN "record"
         ELSE "damaged"

Ev(op, arg, ret, seen) == [op |-> op, arg |-> arg, ret |-> ret, seen |-> seen]
EvXe(amount) == Ev("xe", amount, None, "")
EvXeRet(a) == Ev("xe_ret", None, a, "")
EvFetchB == Ev("fetchB", None, None, "")
EvFetchRet(r) == Ev("fetchB_ret", None, r, "")
EvFetchRaise == Ev("fetchB_raise", None, None, "")
EvLoad(f) == Ev("load", None, load(f).ret, FileKind(f))
\* seen: what the file held when save() was called
EvSave(f, rate, ret) == Ev("save", rate, ret, FileKind(f))

----------------------------------------------------------------------------
(* MessageHandler.handle_conversion *)

\* what bot.send_message may do for the admins of one notification
SendOutcomes == {"sent", "send_failed"}

\* a notifier that lets a failed send escape to its caller
NotifyAdminsLeaky(out) == IF out = "send_failed" THEN "raised" ELSE "returned"

\* NotificationService.notify_admins: every send is wrapped in its own
\* try/except Exception, so the call returns whatever the sends did
\* (notification.py 81-100)
notify_admins(out) == "returned"


\* A task at "done" has sent its last reply and only has to return; the
\* event loop collects it before it resumes another coroutine, so its final
\* values are looked at exactly once.
Settled == \A q \in Tasks : pc[q] # "done"

\* main() has registered the handlers and started polling (main.py 195-220)
Polling == mainpc = "polling"

\* Verdict without the 10,000 RUB floor
VerdictNoFloor(t) ==
    LET f == PyFloat(t)
    IN  IF ~f.ok THEN "number"
        ELSE IF RLe(f.v, Rat(0)) THEN "positive"
        ELSE "valid"

\* step 2, input validation (message_handlers.py 93-100)
Verdict(t) ==
    LET f == PyFloat(t)
    IN  IF ~f.ok THEN "number"
        ELSE IF RLe(f.v, Rat(0)) THEN "positive"
        ELSE IF RLt(f.v, Rat(MinAmount)) THEN "minimum"
        ELSE "valid"

\* EasyRaw falling back to a built-in rate when the rate is unusable
EasyRawDefault(amount, rate) ==
    IF Truthy(rate) THEN RDiv(amount, rate) ELSE RDiv(amount, Rat(100))

\* eur_easy_raw (message_handlers.py 130)
EasyRaw(amount, rate) == IF Truthy(rate) THEN RDiv(amount, rate) ELSE Rat(0)

\* the negation of the test at message_handlers.py 133
RawValid(a, b) ==
    /\ Truthy(a) /\ ~RLe(a, Rat(0))
    /\ Truthy(b) /\ ~RLe(b, Rat(0))

\* FetchMissing that lets every fetched value through
FetchMissingNever(r) == FALSE

\* `if easy_rate is None` after the live fetch (message_handlers.py 123)
FetchMissing(r) == r = None

\* CachedRate with an expiry: the oldest records count as a miss
CachedRateExpiring(c) ==
    IF DictGet(c, "updated_at") = IsoFormatUtc(0) THEN None ELSE DictGet(c, "rate")

\* the rate the handler takes from a loaded record (message_handlers.py 117)
CachedRate(c) == DictGet(c, "rate")

\* a handle_error that tells the user nothing
ErrorRepliesSilent(pre) == pre

\* handle_error: alert the admins, then tell the user (error_handler.py 73-96)
ErrorReplies(pre) == pre \o <<"error">>
ErrorNotes(pre) == pre \o <<"error_alert">>

\* validation and, for a valid amount, the call of Provider A; `pre` are the
\* replies already sent by the statistics step
Validate(p, t, pre) ==
    LET v == Verdict(t)
    IN  /\ replies' = [replies EXCEPT ![p] =
                           IF v = "valid" THEN pre ELSE pre \o <<v>>]
        /\ pc' = [pc EXCEPT ![p] = IF v = "valid" THEN "xe" ELSE "done"]
        /\ rub' = [rub EXCEPT ![p] = PyFloat(t).v]
        /\ calls' = [calls EXCEPT ![p] =
                         IF v = "valid" THEN <<EvXe(PyFloat(t).v)>> ELSE << >>]

\* _update_user_stats that calls the repository whatever self.stats is
SkipStatsNever(st) == FALSE

\* `if self.stats is None: return` (message_handlers.py 67-69)
SkipStats(st) == st = "None"

\* a message arrives; with no stats repository _update_user_stats returns at
\* once and validation follows without a suspension point
Receive(p) ==
    /\ Polling /\ Settled /\ pc[p] = "idle" /\ CanStart
    /\ runs' = runs + 1
    /\ \E t \in MessageTexts :
         /\ text' = [text EXCEPT ![p] = t]
         /\ IF SkipStats(stats)
            THEN Validate(p, t, << >>)
            ELSE /\ pc' = [pc EXCEPT ![p] = "stats"]
                 /\ UNCHANGED <<rub, replies, calls>>
    /\ UNCHANGED <<file, clock, stats, xe, easy, cache, result, notes, fa, fb, fout>>
    /\ UNCHANGED dbvars

\* stats.update_user_stats returned
StatsReturn(p) ==
    /\ Settled /\ pc[p] = "stats"
    /\ Validate(p, text[p], << >>)
    /\ UNCHANGED <<file, clock, runs, stats, text, xe, easy, cache, result,
                   notes, fa, fb, fout>>
    /\ UNCHANGED dbvars

\* what update_user_stats may raise: the statement or the reconnect failed
StatsErrors == {"OperationalError", "InterfaceError"}

\* an except clause that catches nothing
StatsErrorCaughtNever(e) == FALSE

\* `except Exception` around update_user_stats (message_handlers.py 70-74)
StatsErrorCaught(e) == e \in StatsErrors

\* stats.update_user_stats raised: handle_error, then the flow goes on; an
\* uncaught error would leave handle_conversion at line 90, outside its try
StatsRaise(p) ==
    /\ Settled /\ pc[p] = "stats"
    /\ \E e \in StatsErrors :
         IF StatsErrorCaught(e)
         THEN /\ Validate(p, text[p], ErrorReplies(<< >>))
              /\ notes' = [notes EXCEPT ![p] = ErrorNotes(@)]
         ELSE /\ pc' = [pc EXCEPT ![p] = "done"]
              /\ UNCHANGED <<rub, replies, calls, notes>>
    /\ UNCHANGED <<file, clock, runs, stats, text, xe, easy, cache, result,
                   fa, fb, fout>>
    /\ UNCHANGED dbvars

\* steps 4-7 once both the XE value and the Easystaff rate are at hand
\* (message_handlers.py 129-165); c is the dict `cache` at that time
Finish(p, a, rate, c, sent) ==
    LET b == EasyRaw(rub[p], rate)
    IN  /\ pc' = [pc EXCEPT ![p] = "done"]
        /\ xe' = [xe EXCEPT ![p] = a]
        /\ easy' = [easy EXCEPT ![p] = rate]
        /\ cache' = [cache EXCEPT ![p] = c]
        /\ IF RawValid(a, b)
           THEN /\ result' = [result EXCEPT ![p] = ConversionResult(a, b, rate, c)]
                /\ replies' = [replies EXCEPT ![p] = sent \o <<"result">>]
           ELSE /\ result' = result
                /\ replies' = [replies EXCEPT ![p] = sent \o <<"invalid_rate">>]

\* xe.get_rate returned a: load the cache; on a hit finish, on a miss tell
\* the user and call Provider B (message_handlers.py 104-121)
XeReturn(p) ==
    /\ Settled /\ pc[p] = "xe"
    /\ \E a \in XeResults :
         LET c == load(file).ret
             rate == CachedRate(c)
         IN  IF load(file).raised # "none"
             THEN \* an exception out of load() lands in the except clause
                  /\ pc' = [pc EXCEPT ![p] = "done"]
                  /\ xe' = [xe EXCEPT ![p] = a]
                  /\ calls' = [calls EXCEPT ![p] = @ \o <<EvXeRet(a), EvLoad(file)>>]
                  /\ replies' = [replies EXCEPT ![p] = ErrorReplies(@)]
                  /\ notes' = [notes EXCEPT ![p] = ErrorNotes(@)]
                  /\ UNCHANGED <<easy, cache, result>>
             ELSE IF rate = None
             THEN /\ pc' = [pc EXCEPT ![p] = "easy"]
                  /\ xe' = [xe EXCEPT ![p] = a]
                  /\ cache' = [cache EXCEPT ![p] = c]
                  /\ calls' = [calls EXCEPT ![p] =
                                   @ \o <<EvXeRet(a), EvLoad(file), EvFetchB>>]
                  /\ replies' = [replies EXCEPT ![p] = @ \o <<"receiving">>]
                  /\ UNCHANGED <<easy, result, notes>>
             ELSE /\ calls' = [calls EXCEPT ![p] = @ \o <<EvXeRet(a), EvLoad(file)>>]
                  /\ Finish(p, a, rate, c, replies[p])
                  /\ UNCHANGED notes
    /\ UNCHANGED <<file, clock, runs, stats, text, rub, fa, fb, fout>>
    /\ UNCHANGED dbvars

\* xe.get_rate raised (HTTP or parse error): the handler's except clause
XeRaise(p) ==
    /\ Settled /\ pc[p] = "xe"
    /\ pc' = [pc EXCEPT ![p] = "done"]
    /\ replies' = [replies EXCEPT ![p] = ErrorReplies(@)]
    /\ notes' = [notes EXCEPT ![p] = ErrorNotes(@)]
    /\ UNCHANGED <<file, clock, runs, stats, text, rub, xe, easy, cache,
                   result, calls, fa, fb, fout>>
    /\ UNCHANGED dbvars

\* the rate taken from the record read back after the save
RateFromReload(fetched, c) == DictGet(c, "rate")

\* easy_rate after the save and the reload: still the value get_rate
\* returned; the reloaded dict only supplies updated_at
\* (message_handlers.py 121-130)
RateAfterSave(fetched, c) == fetched

\* easystaff.get_rate returned r on a cache miss, the file system treating
\* the save as io (message_handlers.py 121-165)
EasyReturned(p, r, io) ==
    /\ Settled /\ pc[p] = "easy"
    /\ IF FetchMissing(r)
       THEN /\ pc' = [pc EXCEPT ![p] = "done"]
            /\ replies' = [replies EXCEPT ![p] = @ \o <<"failed_easy">>]
            /\ calls' = [calls EXCEPT ![p] = @ \o <<EvFetchRet(r)>>]
            /\ UNCHANGED <<file, clock, xe, easy, cache, result>>
       ELSE LET s == save(file, r, clock, io)
            IN  /\ file' = s.file
                /\ clock' = clock + 1
                /\ calls' = [calls EXCEPT ![p] =
                       @ \o <<EvFetchRet(r), EvSave(file, r, s.ret), EvLoad(s.file)>>]
                /\ Finish(p, xe[p], RateAfterSave(r, load(s.file).ret),
                          load(s.file).ret, replies[p])
    /\ UNCHANGED <<runs, stats, text, rub, notes, fa, fb, fout>>
    /\ UNCHANGED dbvars

EasyReturn(p) == \E r \in EasyResults : EasyReturned(p, r, IoOk)

\* the same with the cache write failing
EasyReturnSaveFails(p) ==
    \E r \in EasyResults \ {None}, io \in IoFailures : EasyReturned(p, r, io)

\* easystaff.get_rate raised (scraping failed, or the text is no number)
EasyRaise(p) ==
    /\ Settled /\ pc[p] = "easy"
    /\ pc' = [pc EXCEPT ![p] = "done"]
    /\ replies' = [replies EXCEPT ![p] = ErrorReplies(@)]
    /\ notes' = [notes EXCEPT ![p] = ErrorNotes(@)]
    /\ calls' = [calls EXCEPT ![p] = @ \o <<EvFetchRaise>>]
    /\ UNCHANGED <<file, clock, runs, stats, text, rub, xe, easy, cache,
                   result, fa, fb, fout>>
    /\ UNCHANGED dbvars

----------------------------------------------------------------------------
(* Scheduler._update_rate *)

\* RateAccepted that only rejects None
RateAcceptedAnyNumber(r) == r # None

\* `if rate and rate > 0` (scheduler.py 178)
RateAccepted(r) == Truthy(r) /\ ~RLe(r, Rat(0))

\* a cron job fires: _update_rate calls easystaff.get_rate
JobStart(j) ==
    /\ Polling /\ Settled /\ pc[j] = "idle" /\ CanStart
    /\ runs' = runs + 1
    /\ pc' = [pc EXCEPT ![j] = "easy"]
    /\ calls' = [calls EXCEPT ![j] = <<EvFetchB>>]
    /\ UNCHANGED <<file, clock, stats, text, rub, xe, easy, cache, replies,
                   result, notes, fa, fb, fout>>
    /\ UNCHANGED dbvars

\* get_rate returned r: save and report success, or report the invalid rate;
\* an exception of the notifier would leave _update_rate ("crashed")
\* (scheduler.py 178-192)
JobReturned(j, r, io) ==
    /\ Settled /\ pc[j] = "easy"
    /\ \E out \in SendOutcomes :
         pc' = [pc EXCEPT ![j] = IF notify_admins(out) = "raised"
                                  THEN "crashed" ELSE "done"]
    /\ IF RateAccepted(r)
       THEN LET s == save(file, r, clock, io)
            IN  /\ file' = s.file
                /\ clock' = clock + 1
                /\ calls' = [calls EXCEPT ![j] =
                                 @ \o <<EvFetchRet(r), EvSave(file, r, s.ret)>>]
                /\ notes' = [notes EXCEPT ![j] = @ \o <<"refresh_success">>]
       ELSE /\ calls' = [calls EXCEPT ![j] = @ \o <<EvFetchRet(r)>>]
            /\ notes' = [notes EXCEPT ![j] = @ \o <<"refresh_invalid">>]
            /\ UNCHANGED <<file, clock>>
    /\ UNCHANGED <<runs, stats, text, rub, xe, easy, cache, replies, result,
                   fa, fb, fout>>
    /\ UNCHANGED dbvars

JobReturn(j) == \E r \in EasyResults : JobReturned(j, r, IoOk)

\* the same with the cache write failing
JobReturnSaveFails(j) ==
    \E r \in {x \in EasyResults : RateAccepted(x)}, io \in IoFailures :
        JobReturned(j, r, io)

\* get_rate raised: the except clause notifies the admins; an exception of
\* the notifier would leave _update_rate ("crashed") (scheduler.py 194-202)
JobRaise(j) ==
    /\ Settled /\ pc[j] = "easy"
    /\ \E out \in SendOutcomes :
         pc' = [pc EXCEPT ![j] = IF notify_admins(out) = "raised"
                                  THEN "crashed" ELSE "done"]
    /\ notes' = [notes EXCEPT ![j] = @ \o <<"refresh_failed">>]
    /\ calls' = [calls EXCEPT ![j] = @ \o <<EvFetchRaise>>]
    /\ UNCHANGED <<file, clock, runs, stats, text, rub, xe, easy, cache,
                   replies, result, fa, fb, fout>>
    /\ UNCHANGED dbvars

\* the coroutine has returned; its slot serves the next message or cron tick
Return(p) ==
    /\ pc[p] = "done"
    /\ pc' = [pc EXCEPT ![p] = "idle"]
    /\ text' = [text EXCEPT ![p] = << >>]
    /\ rub' = [rub EXCEPT ![p] = None]
    /\ xe' = [xe EXCEPT ![p] = None]
    /\ easy' = [easy EXCEPT ![p] = None]
    /\ cache' = [cache EXCEPT ![p] = EmptyDict]
    /\ replies' = [replies EXCEPT ![p] = << >>]
    /\ result' = [result EXCEPT ![p] = NoResult]
    /\ calls' = [calls EXCEPT ![p] = << >>]
    /\ notes' = [notes EXCEPT ![p] = << >>]
    /\ UNCHANGED <<file, clock, runs, stats, fa, fb, fout>>
    /\ UNCHANGED dbvars

----------------------------------------------------------------------------
(* cmd_start and cmd_stats (commands.py) *)

\* the suspension points at which a handler waits for the database
DbWaits == {"stats", "cmd_start_db", "cmd_stats_db"}

\* /start: greet, then log the user if there is a repository
\* (commands.py 91-106)
CmdStart(c) ==
    /\ Polling /\ Settled /\ pc[c] = "idle" /\ CanStart
    /\ runs' = runs + 1
    /\ text' = [text EXCEPT ![c] = <<"/start", "user">>]
    /\ replies' = [replies EXCEPT ![c] = <<"greeting">>]
    /\ pc' = [pc EXCEPT ![c] = IF ~use_db \/ stats = "None"
                                  THEN "done" ELSE "cmd_start_db"]
    /\ UNCHANGED <<file, clock, stats, rub, xe, easy, cache, result, calls,
                   notes, fa, fb, fout>>
    /\ UNCHANGED dbvars

\* stats_repo.update_user_stats returned or raised; an error is only logged
\* (commands.py 104-109)
CmdStartDbEnds(c) ==
    /\ Settled /\ pc[c] = "cmd_start_db"
    /\ pc' = [pc EXCEPT ![c] = "done"]
    /\ UNCHANGED <<file, clock, runs, stats, text, rub, xe, easy, cache,
                   replies, result, calls, notes, fa, fb, fout>>
    /\ UNCHANGED dbvars

\* an admin check that lets every sender through
IsAdminAnyone(who) == TRUE

\* message.from_user.id in ADMIN_IDS (commands.py 134)
IsAdmin(who) == who = "admin"

\* /stats: the checks before the database is asked (commands.py 134-148)
CmdStats(c) ==
    /\ Polling /\ Settled /\ pc[c] = "idle" /\ CanStart
    /\ runs' = runs + 1
    /\ \E who \in {"admin", "user"} :
         /\ text' = [text EXCEPT ![c] = <<"/stats", who>>]
         /\ IF ~IsAdmin(who)
            THEN /\ replies' = [replies EXCEPT ![c] = <<"take_a_walk">>]
                 /\ pc' = [pc EXCEPT ![c] = "done"]
            ELSE IF ~use_db
            THEN /\ replies' = [replies EXCEPT ![c] = <<"db_disabled">>]
                 /\ pc' = [pc EXCEPT ![c] = "done"]
            ELSE IF stats = "None"
            THEN /\ replies' = [replies EXCEPT ![c] = <<"db_unavailable">>]
                 /\ pc' = [pc EXCEPT ![c] = "done"]
            ELSE /\ replies' = replies
                 /\ pc' = [pc EXCEPT ![c] = "cmd_stats_db"]
    /\ UNCHANGED <<file, clock, stats, rub, xe, easy, cache, result, calls,
                   notes, fa, fb, fout>>
    /\ UNCHANGED dbvars

\* stats_repo.get_stats returned: the table is sent (commands.py 159-197)
CmdStatsReturns(c) ==
    /\ Settled /\ pc[c] = "cmd_stats_db"
    /\ pc' = [pc EXCEPT ![c] = "done"]
    /\ replies' = [replies EXCEPT ![c] = @ \o <<"stats_table">>]
    /\ UNCHANGED <<file, clock, runs, stats, text, rub, xe, easy, cache,
                   result, calls, notes, fa, fb, fout>>
    /\ UNCHANGED dbvars

\* stats_repo.get_stats raised: the error text is sent (commands.py 149-157)
CmdStatsRaises(c) ==
    /\ Settled /\ pc[c] = "cmd_stats_db"
    /\ pc' = [pc EXCEPT ![c] = "done"]
    /\ replies' = [replies EXCEPT ![c] = @ \o <<"stats_error">>]
    /\ UNCHANGED <<file, clock, runs, stats, text, rub, xe, easy, cache,
                   result, calls, notes, fa, fb, fout>>
    /\ UNCHANGED dbvars

NextCommands ==
    \/ \E c \in Commands : CmdStart(c)
    \/ \E c \in Commands : CmdStartDbEnds(c)
    \/ \E c \in Commands : CmdStats(c)
    \/ \E c \in Commands : CmdStatsReturns(c)
    \/ \E c \in Commands : CmdStatsRaises(c)

----------------------------------------------------------------------------
(* connect_with_retries and the database part of main() *)

\* largest `retries` explored
MaxRetries == 6

\* what asyncmy.connect raises: a declared database error or anything else
ConnectErrors == {"OperationalError", "OSError"}

\* concurrent users of the connection manager (statistics updates, /stats)
Ops == {"o1", "o2"}

\* a get_cursor() call not in progress.  h: the handle being pinged or
\* closed; new: the handle this call established; cur: the handle its cursor
\* is on; tries: connect() calls made; thrown: what the block raised;
\* err: what the caller sees raised; log: the steps taken, in order
OpIdle ==
    [pc |-> "idle", h |-> 0, new |-> 0, cur |-> 0, tries |-> 0,
     thrown |-> None, err |-> None, log |-> << >>]

\* a close() call not in progress.  h: the handle being closed; failed:
\* whether ensure_closed raised; err: what the caller sees raised
CloserIdle == [pc |-> "idle", h |-> 0, failed |-> FALSE, err |-> None]

\* delay: the argument of the asyncio.sleep in progress
BootIdle ==
    [pc |-> "idle", retries |-> 0, attempt |-> 0, sleeps |-> 0,
     errs |-> << >>, out |-> None, delay |-> None]

\* no shutdown signal received (main.py 25), no clean-up step done
ShutdownIdle == [event |-> FALSE, steps |-> << >>]

\* the values of the database variables before any connection is made
DbAtRest ==
    /\ boot = BootIdle
    /\ conn = 0 /\ live = {} /\ made = 0
    /\ ops = [o \in Ops |-> OpIdle]
    /\ closer = CloserIdle
    /\ ncalls = 0

\* main() itself, as a caller of the notifier
Main == "main"

\* the notifications sent so far: none by the handlers and jobs, and by
\* main() its start-up message once the bot is polling (main.py 217)
NotesAt(started) ==
    [p \in Tasks \cup {Main} |->
        IF p = Main /\ started THEN <<"launched">> ELSE << >>]


\* the handler variables with no request, job or command in flight
HandlersAtRest ==
    /\ clock = 1 /\ runs = 0
    /\ pc = [p \in Tasks |-> "idle"]
    /\ text = [p \in Tasks |-> << >>]
    /\ rub = [p \in Tasks |-> None]
    /\ xe = [p \in Tasks |-> None]
    /\ easy = [p \in Tasks |-> None]
    /\ cache = [p \in Tasks |-> EmptyDict]
    /\ replies = [p \in Tasks |-> << >>]
    /\ result = [p \in Tasks |-> NoResult]
    /\ calls = [p \in Tasks |-> << >>]
    /\ fa = None /\ fb = None /\ fout = None

\* a bare `raise` that re-raises the first error seen
ReraiseFirst(errs) == errs[1]

\* the bare `raise` in the except clause: the exception being handled, which
\* is the one of the attempt just made (main.py 100-103)
Reraise(errs) == errs[Len(errs)]

RAdd(a, b) == <<a[1] * b[2] + b[1] * a[2], a[2] * b[2]>>
RMul(a, b) == <<a[1] * b[1], a[2] * b[2]>>

RECURSIVE Pow2(_)
Pow2(k) == IF k = 0 THEN 1 ELSE 2 * Pow2(k - 1)

\* the defaults of connect_with_retries, with which main() calls it
\* (main.py 54-55, 183)
base == <<1, 2>>
cap == Rat(5)

\* what random.random() may return, in [0, 1)
RandomUnits == {Rat(0), <<1, 2>>, <<99, 100>>}

\* random.uniform(a, b) == a + (b - a) * random()
uniform(a, b, u) == RAdd(a, RMul(RSub(b, a), u))

\* a backoff that is not capped
BackoffUncapped(attempt) == RMulInt(base, Pow2(attempt - 1))

\* min(cap, base * (2 ** (attempt - 1))) (main.py 106)
Backoff(attempt) == RMin(cap, RMulInt(base, Pow2(attempt - 1)))

\* delay = min(cap, base * 2 ** (attempt - 1)) * random.uniform(1.0, 1.4)
Delay(attempt, u) == RMul(Backoff(attempt), uniform(Rat(1), <<14, 10>>, u))

\* the last-attempt test counting one attempt too many
LastAttemptLate(attempt, retries) == attempt = retries + 1

\* `if attempt == retries` (main.py 102)
LastAttempt(attempt, retries) == attempt = retries

\* main() reaches the database block (main.py 165-193): with USE_DB off it
\* goes on without a repository and sends its start-up message (main.py
\* 217; an exception of the notifier would end the main loop, "stopping"),
\* otherwise it calls connect_with_retries, whose first attempt starts at
\* once
MainStart ==
    /\ mainpc = "start"
    /\ IF use_db
       THEN /\ mainpc' = "boot"
            /\ \E r \in 1..MaxRetries :
                 boot' = [BootIdle EXCEPT !.pc = "attempting", !.retries = r,
                                          !.attempt = 1]
            /\ notes' = notes
       ELSE /\ \E out \in SendOutcomes :
                 mainpc' = IF notify_admins(out) = "raised"
                           THEN "stopping" ELSE "polling"
            /\ boot' = boot
            /\ notes' = [notes EXCEPT ![Main] = @ \o <<"launched">>]
    /\ UNCHANGED <<file, clock, runs, stats, pc, text, rub, xe, easy, cache,
                   replies, result, calls, fa, fb, fout>>
    /\ UNCHANGED <<use_db, conn, live, made, ops, closer, ncalls, shutdown>>

\* make_conn() returned: a fresh AsyncDatabaseConnection whose connect()
\* succeeded (main.py 99, 171-180)
AttemptReturns ==
    /\ mainpc = "boot" /\ boot.pc = "attempting"
    /\ made' = made + 1
    /\ live' = live \cup {made + 1}
    /\ conn' = made + 1
    /\ boot' = [boot EXCEPT !.pc = "returned", !.out = <<"conn", made + 1>>]
    /\ UNCHANGED <<file, clock, runs, stats, pc, text, rub, xe, easy, cache,
                   replies, result, calls, notes, fa, fb, fout>>
    /\ UNCHANGED <<use_db, mainpc, ops, closer, ncalls, shutdown>>

\* make_conn() raised: re-raise on the last attempt, otherwise sleep
\* (main.py 100-110)
AttemptRaises ==
    /\ mainpc = "boot" /\ boot.pc = "attempting"
    /\ \E k \in ConnectErrors :
         LET es == Append(boot.errs, <<k, boot.attempt>>)
         IN  IF LastAttempt(boot.attempt, boot.retries)
             THEN boot' = [boot EXCEPT !.pc = "raised", !.errs = es,
                                       !.out = <<"err">> \o Reraise(es)]
             ELSE \E u \in RandomUnits :
                      boot' = [boot EXCEPT !.pc = "sleeping", !.errs = es,
                                           !.sleeps = @ + 1,
                                           !.delay = Delay(boot.attempt, u)]
    /\ UNCHANGED <<file, clock, runs, stats, pc, text, rub, xe, easy, cache,
                   replies, result, calls, notes, fa, fb, fout>>
    /\ UNCHANGED <<use_db, mainpc, conn, live, made, ops, closer, ncalls,
                   shutdown>>

\* asyncio.sleep(delay) is over: the loop makes the next attempt
\* (main.py 96-99, 110)
SleepEnds ==
    /\ mainpc = "boot" /\ boot.pc = "sleeping"
    /\ boot' = [boot EXCEPT !.pc = "attempting", !.attempt = @ + 1,
                            !.delay = None]
    /\ UNCHANGED <<file, clock, runs, stats, pc, text, rub, xe, easy, cache,
                   replies, result, calls, notes, fa, fb, fout>>
    /\ UNCHANGED <<use_db, mainpc, conn, live, made, ops, closer, ncalls,
                   shutdown>>

\* connect_with_retries is over: main() builds the repository, or logs the
\* error and goes on without one; then handlers and scheduler are set up
\* and the admins are told that the bot has been launched; an exception of
\* the notifier would end the main loop ("stopping") (main.py 183-217, 240)
MainAfterBoot ==
    /\ mainpc = "boot" /\ boot.pc \in {"returned", "raised"}
    /\ stats' = IF boot.pc = "returned" THEN "repo" ELSE "None"
    /\ \E out \in SendOutcomes :
         mainpc' = IF notify_admins(out) = "raised" THEN "stopping" ELSE "polling"
    /\ boot' = BootIdle
    /\ notes' = [notes EXCEPT ![Main] = @ \o <<"launched">>]
    /\ UNCHANGED <<file, clock, runs, pc, text, rub, xe, easy, cache,
                   replies, result, calls, fa, fb, fout>>
    /\ UNCHANGED <<use_db, conn, live, made, ops, closer, ncalls, shutdown>>

NextRetry ==
    \/ MainStart
    \/ AttemptReturns
    \/ AttemptRaises
    \/ SleepEnds

----------------------------------------------------------------------------
(* AsyncDatabaseConnection: ensure_connected, connect, get_cursor, close *)

\* get_cursor() and close() calls explored in one behaviour
MaxCalls == 3

\* what ping() raises: the two declared errors or anything else
PingErrors == {"OperationalError", "InterfaceError", "RuntimeError"}

\* how the block under `async with get_cursor()` ends
BodyOutcomes ==
    {"ok", "OperationalError", "InterfaceError", "IntegrityError",
     "CancelledError"}

\* a finished call returns to its caller before another coroutine runs
DbSettled == (\A o \in Ops : ops[o].pc # "done") /\ closer.pc # "done"

CanCall == Polling /\ DbSettled /\ ncalls < MaxCalls

\* ensure_connected catching the declared ping errors only
PingCaughtDeclared(kind) == kind \in {"OperationalError", "InterfaceError"}

\* the two except clauses of ensure_connected catch every ping error
\* (connection_async.py 166-173)
PingCaught(kind) == TRUE

\* ensure_connected trying connect() a second time
GiveUpAfterTwo(tries) == tries >= 2

\* ensure_connected calls connect() once and lets its error out
\* (connection_async.py 158, 169, 173)
GiveUp(tries) == tries >= 1

\* get_cursor dropping the error of the block
ReraisedNone(e) == None

\* the `raise` in both except clauses of get_cursor; CancelledError passes
\* them untouched (connection_async.py 246-253)
Reraised(e) == e

\* close() letting the error of ensure_closed out
CloseReraises(e) == e

\* close() logs the error of ensure_closed (connection_async.py 289-291)
CloseSwallows(e) == None

\* the first lines of connect(): with a handle, await its ensure_closed,
\* otherwise go straight to asyncmy.connect (connection_async.py 116-123)
StartConnect(o, lg) ==
    IF conn # 0
    THEN ops' = [ops EXCEPT ![o].pc = "closing", ![o].h = conn,
                            ![o].log = lg \o <<"ensure_closed">>]
    ELSE ops' = [ops EXCEPT ![o].pc = "connecting", ![o].tries = @ + 1,
                            ![o].log = lg \o <<"connect">>]

\* self.cursor() right after ensure_connected returned, on handle c
\* (connection_async.py 203-205, 243-245)
TakeCursor(o, c, lg, established) ==
    IF c = 0
    THEN ops' = [ops EXCEPT ![o].pc = "done", ![o].new = established,
                            ![o].err = <<"RuntimeError", "cursor">>,
                            ![o].log = lg]
    ELSE ops' = [ops EXCEPT ![o].pc = "body", ![o].new = established,
                            ![o].cur = c, ![o].log = lg \o <<"cursor">>]

\* get_cursor() is entered: ensure_connected connects when there is no
\* handle, otherwise pings (connection_async.py 240, 156-164)
GetCursor(o) ==
    /\ CanCall /\ ops[o].pc = "idle"
    /\ ncalls' = ncalls + 1
    /\ IF conn = 0
       THEN StartConnect(o, <<"ensure">>)
       ELSE ops' = [ops EXCEPT ![o].pc = "ping", ![o].h = conn,
                               ![o].log = <<"ensure", "ping">>]
    /\ UNCHANGED <<conn, live, made, closer>>
    /\ UNCHANGED <<file, clock, runs, stats, pc, text, rub, xe, easy, cache,
                   replies, result, calls, notes, fa, fb, fout>>
    /\ UNCHANGED <<use_db, mainpc, boot, shutdown>>

\* ping(reconnect=True) returned; on a handle that was closed meanwhile the
\* driver has re-opened it.  The cursor is taken from self.conn as it is now.
PingReturns(o) ==
    /\ DbSettled /\ ops[o].pc = "ping"
    /\ live' = live \cup {ops[o].h}
    /\ TakeCursor(o, conn, ops[o].log \o <<"ping_ok">>, 0)
    /\ UNCHANGED <<conn, made, closer, ncalls>>
    /\ UNCHANGED <<file, clock, runs, stats, pc, text, rub, xe, easy, cache,
                   replies, result, calls, notes, fa, fb, fout>>
    /\ UNCHANGED <<use_db, mainpc, boot, shutdown>>

\* ping raised: reconnect (connection_async.py 166-173)
PingRaises(o) ==
    /\ DbSettled /\ ops[o].pc = "ping"
    /\ \E k \in PingErrors :
         IF PingCaught(k)
         THEN StartConnect(o, ops[o].log \o <<"ping_fail">>)
         ELSE ops' = [ops EXCEPT ![o].pc = "done", ![o].err = <<k, "ping">>,
                                 ![o].log = @ \o <<"ping_fail">>]
    /\ UNCHANGED <<conn, live, made, closer, ncalls>>
    /\ UNCHANGED <<file, clock, runs, stats, pc, text, rub, xe, easy, cache,
                   replies, result, calls, notes, fa, fb, fout>>
    /\ UNCHANGED <<use_db, mainpc, boot, shutdown>>

\* ensure_closed on the old handle returned or raised (ignored either way);
\* next comes asyncmy.connect (connection_async.py 117-123)
OldHandleClosed(o) ==
    /\ DbSettled /\ ops[o].pc = "closing"
    /\ live' = live \ {ops[o].h}
    /\ ops' = [ops EXCEPT ![o].pc = "connecting", ![o].tries = @ + 1,
                          ![o].log = @ \o <<"connect">>]
    /\ UNCHANGED <<conn, made, closer, ncalls>>
    /\ UNCHANGED <<file, clock, runs, stats, pc, text, rub, xe, easy, cache,
                   replies, result, calls, notes, fa, fb, fout>>
    /\ UNCHANGED <<use_db, mainpc, boot, shutdown>>

\* asyncmy.connect returned: self.conn is the new handle, ensure_connected
\* returns and the cursor is taken (connection_async.py 123, 243)
ConnectReturns(o) ==
    /\ DbSettled /\ ops[o].pc = "connecting"
    /\ made' = made + 1
    /\ live' = live \cup {made + 1}
    /\ conn' = made + 1
    /\ TakeCursor(o, made + 1, ops[o].log \o <<"connect_ok">>, made + 1)
    /\ UNCHANGED <<closer, ncalls>>
    /\ UNCHANGED <<file, clock, runs, stats, pc, text, rub, xe, easy, cache,
                   replies, result, calls, notes, fa, fb, fout>>
    /\ UNCHANGED <<use_db, mainpc, boot, shutdown>>

\* asyncmy.connect raised: the error leaves connect, ensure_connected and
\* get_cursor; self.conn keeps its value
ConnectRaises(o) ==
    /\ DbSettled /\ ops[o].pc = "connecting"
    /\ \E k \in ConnectErrors :
         IF GiveUp(ops[o].tries)
         THEN ops' = [ops EXCEPT ![o].pc = "done", ![o].err = <<k, "connect">>,
                                 ![o].log = @ \o <<"connect_fail">>]
         ELSE ops' = [ops EXCEPT ![o].tries = @ + 1,
                                 ![o].log = @ \o <<"connect_fail", "connect">>]
    /\ UNCHANGED <<conn, live, made, closer, ncalls>>
    /\ UNCHANGED <<file, clock, runs, stats, pc, text, rub, xe, easy, cache,
                   replies, result, calls, notes, fa, fb, fout>>
    /\ UNCHANGED <<use_db, mainpc, boot, shutdown>>

\* the block ends, normally or by an exception thrown into the generator at
\* its yield; the finally clause awaits cur.close() (connection_async.py 244-256)
BodyEnds(o) ==
    /\ DbSettled /\ ops[o].pc = "body"
    /\ \E b \in BodyOutcomes :
         ops' = [ops EXCEPT ![o].pc = "cur_closing",
                            ![o].thrown = IF b = "ok" THEN None ELSE <<b, "body">>,
                            ![o].log = @ \o <<"body_end">>]
    /\ UNCHANGED <<conn, live, made, closer, ncalls>>
    /\ UNCHANGED <<file, clock, runs, stats, pc, text, rub, xe, easy, cache,
                   replies, result, calls, notes, fa, fb, fout>>
    /\ UNCHANGED <<use_db, mainpc, boot, shutdown>>

\* cur.close() returned: get_cursor is left, with the error of the block if
\* there was one
CursorClosed(o) ==
    /\ DbSettled /\ ops[o].pc = "cur_closing"
    /\ ops' = [ops EXCEPT ![o].pc = "done",
                          ![o].err = Reraised(ops[o].thrown),
                          ![o].log = @ \o <<"cur_close">>]
    /\ UNCHANGED <<conn, live, made, closer, ncalls>>
    /\ UNCHANGED <<file, clock, runs, stats, pc, text, rub, xe, easy, cache,
                   replies, result, calls, notes, fa, fb, fout>>
    /\ UNCHANGED <<use_db, mainpc, boot, shutdown>>

\* the caller of get_cursor() has taken the outcome
OpReturn(o) ==
    /\ ops[o].pc = "done"
    /\ ops' = [ops EXCEPT ![o] = OpIdle]
    /\ UNCHANGED <<conn, live, made, closer, ncalls>>
    /\ UNCHANGED <<file, clock, runs, stats, pc, text, rub, xe, easy, cache,
                   replies, result, calls, notes, fa, fb, fout>>
    /\ UNCHANGED <<use_db, mainpc, boot, shutdown>>

\* close() is called: without a handle it returns at once, otherwise it
\* awaits ensure_closed (connection_async.py 284-287)
CloseCall ==
    /\ CanCall /\ closer.pc = "idle"
    /\ ncalls' = ncalls + 1
    /\ closer' = IF conn # 0
                 THEN [CloserIdle EXCEPT !.pc = "closing", !.h = conn]
                 ELSE [CloserIdle EXCEPT !.pc = "done"]
    /\ UNCHANGED <<conn, live, made, ops>>
    /\ UNCHANGED <<file, clock, runs, stats, pc, text, rub, xe, easy, cache,
                   replies, result, calls, notes, fa, fb, fout>>
    /\ UNCHANGED <<use_db, mainpc, boot, shutdown>>

\* ensure_closed returned: the finally clause clears self.conn
\* (connection_async.py 287-294)
CloseReturns ==
    /\ DbSettled /\ closer.pc = "closing"
    /\ live' = live \ {closer.h}
    /\ conn' = 0
    /\ closer' = [closer EXCEPT !.pc = "done"]
    /\ UNCHANGED <<made, ops, ncalls>>
    /\ UNCHANGED <<file, clock, runs, stats, pc, text, rub, xe, easy, cache,
                   replies, result, calls, notes, fa, fb, fout>>
    /\ UNCHANGED <<use_db, mainpc, boot, shutdown>>

\* ensure_closed raised: logged, and self.conn is cleared all the same; the
\* handle may or may not have been shut
CloseRaises ==
    /\ DbSettled /\ closer.pc = "closing"
    /\ \E shut \in BOOLEAN :
         live' = IF shut THEN live \ {closer.h} ELSE live
    /\ conn' = 0
    /\ closer' = [closer EXCEPT !.pc = "done", !.failed = TRUE,
                                !.err = CloseSwallows(<<"Error", "ensure_closed">>)]
    /\ UNCHANGED <<made, ops, ncalls>>
    /\ UNCHANGED <<file, clock, runs, stats, pc, text, rub, xe, easy, cache,
                   replies, result, calls, notes, fa, fb, fout>>
    /\ UNCHANGED <<use_db, mainpc, boot, shutdown>>

\* close() has returned to its caller
CloserReturn ==
    /\ closer.pc = "done"
    /\ closer' = CloserIdle
    /\ UNCHANGED <<conn, live, made, ops, ncalls>>
    /\ UNCHANGED <<file, clock, runs, stats, pc, text, rub, xe, easy, cache,
                   replies, result, calls, notes, fa, fb, fout>>
    /\ UNCHANGED <<use_db, mainpc, boot, shutdown>>

NextDb ==
    \/ \E o \in Ops : GetCursor(o)
    \/ \E o \in Ops : PingReturns(o)
    \/ \E o \in Ops : PingRaises(o)
    \/ \E o \in Ops : OldHandleClosed(o)
    \/ \E o \in Ops : ConnectReturns(o)
    \/ \E o \in Ops : ConnectRaises(o)
    \/ \E o \in Ops : BodyEnds(o)
    \/ \E o \in Ops : CursorClosed(o)
    \/ \E o \in Ops : OpReturn(o)
    \/ CloseCall
    \/ CloseReturns
    \/ CloseRaises
    \/ CloserReturn

----------------------------------------------------------------------------
(* The system *)

\* a record left by an earlier run of the bot
EarlierRecord == save(NoFile, Rat(80), 0, IoOk).file

Init ==
    /\ file \in {NoFile, EarlierRecord}
    /\ clock = 1
    /\ runs = 0
    /\ stats \in {"None", "repo"}
    /\ pc = [p \in Tasks |-> "idle"]
    /\ text = [p \in Tasks |-> << >>]
    /\ rub = [p \in Tasks |-> None]
    /\ xe = [p \in Tasks |-> None]
    /\ easy = [p \in Tasks |-> None]
    /\ cache = [p \in Tasks |-> EmptyDict]
    /\ replies = [p \in Tasks |-> << >>]
    /\ result = [p \in Tasks |-> NoResult]
    /\ calls = [p \in Tasks |-> << >>]
    /\ notes = NotesAt(TRUE)
    /\ fa = None /\ fb = None /\ fout = None
    /\ use_db = TRUE /\ mainpc = "polling" /\ shutdown = ShutdownIdle
    /\ boot = BootIdle
    /\ conn = (IF stats = "repo" THEN 1 ELSE 0)
    /\ live = (IF stats = "repo" THEN {1} ELSE {})
    /\ made = (IF stats = "repo" THEN 1 ELSE 0)
    /\ ops = [o \in Ops |-> OpIdle]
    /\ closer = CloserIdle
    /\ ncalls = 0

\* steps in which the file system works
NextSound ==
    \/ \E p \in Requests : Receive(p)
    \/ \E p \in Requests : StatsReturn(p)
    \/ \E p \in Requests : StatsRaise(p)
    \/ \E p \in Requests : XeReturn(p)
    \/ \E p \in Requests : XeRaise(p)
    \/ \E p \in Requests : EasyReturn(p)
    \/ \E p \in Requests : EasyRaise(p)
    \/ \E j \in Jobs : JobStart(j)
    \/ \E j \in Jobs : JobReturn(j)
    \/ \E j \in Jobs : JobRaise(j)
    \/ \E p \in Tasks : Return(p)

Next ==
    \/ NextSound
    \/ \E p \in Requests : EasyReturnSaveFails(p)
    \/ \E j \in Jobs : JobReturnSaveFails(j)

Spec == Init /\ [][Next]_vars

\* every interleaving of requests and refresh jobs, with a working file system
SpecSound == Init /\ [][NextSound]_vars

----------------------------------------------------------------------------
(* The recommendation rule on its own: inputs drawn from whole EUR amounts *)

InitRecommend ==
    /\ fa \in {Rat(n) : n \in 1..MaxRaw}
    /\ fb \in {Rat(n) : n \in 1..MaxRaw}
    /\ fout = None
    /\ file = NoFile /\ clock = 1 /\ runs = 0 /\ stats = "None"
    /\ pc = [p \in Tasks |-> "idle"]
    /\ text = [p \in Tasks |-> << >>]
    /\ rub = [p \in Tasks |-> None]
    /\ xe = [p \in Tasks |-> None]
    /\ easy = [p \in Tasks |-> None]
    /\ cache = [p \in Tasks |-> EmptyDict]
    /\ replies = [p \in Tasks |-> << >>]
    /\ result = [p \in Tasks |-> NoResult]
    /\ calls = [p \in Tasks |-> << >>]
    /\ notes = NotesAt(TRUE)
    /\ use_db = TRUE /\ mainpc = "polling" /\ shutdown = ShutdownIdle /\ DbAtRest

ApplyRecommend ==
    /\ fout = None
    /\ fout' = Recommend(fa, fb)
    /\ UNCHANGED <<file, clock, runs, stats, pc, text, rub, xe, easy, cache,
                   replies, result, calls, notes, fa, fb>>
    /\ UNCHANGED dbvars

SpecRecommend == InitRecommend /\ [][ApplyRecommend]_vars

----------------------------------------------------------------------------
(* The presentation step on its own (message_handlers.py 141-151): the    *)
(* recommended raw value, a float given by the Decimal of its repr, is     *)
(* truncated for display and rounded for invoicing                         *)

DisplayCoefficients == {0, 1, 5, 29, 1004, 1005, 10999, 1342455}

\* positive floats from 0.0001 up to 1342455e27
DisplayValues ==
    {[m |-> c, e |-> x] : c \in DisplayCoefficients,
                          x \in (0 - MaxDecimals)..MaxExponent}

InitDisplay ==
    /\ fa \in DisplayValues
    /\ fb = None
    /\ fout = None
    /\ file = NoFile /\ clock = 1 /\ runs = 0 /\ stats = "None"
    /\ pc = [p \in Tasks |-> "idle"]
    /\ text = [p \in Tasks |-> << >>]
    /\ rub = [p \in Tasks |-> None]
    /\ xe = [p \in Tasks |-> None]
    /\ easy = [p \in Tasks |-> None]
    /\ cache = [p \in Tasks |-> EmptyDict]
    /\ replies = [p \in Tasks |-> << >>]
    /\ result = [p \in Tasks |-> NoResult]
    /\ calls = [p \in Tasks |-> << >>]
    /\ notes = NotesAt(TRUE)
    /\ use_db = TRUE /\ mainpc = "polling" /\ shutdown = ShutdownIdle /\ DbAtRest

\* used_value_show = trunc2(used_value_raw), then rounded_to_use; an
\* InvalidOperation of trunc2 leaves the block before the rounding
ApplyDisplay ==
    /\ fout = None
    /\ fout' = LET t == Trunc2Decimal(fa)
               IN  IF t.raised
                   THEN [raised |-> "InvalidOperation"]
                   ELSE [raised  |-> "none",
                         show    |-> [m |-> t.m, e |-> t.e],
                         rounded |-> RoundDecimal(fa)]
    /\ UNCHANGED <<file, clock, runs, stats, pc, text, rub, xe, easy, cache,
                   replies, result, calls, notes, fa, fb>>
    /\ UNCHANGED dbvars

SpecDisplay == InitDisplay /\ [][ApplyDisplay]_vars

----------------------------------------------------------------------------
(* CacheRepository.load() on its own: the backing file drawn from complete  *)
(* records, every truncation of them, and foreign or damaged content        *)

SampleDocs ==
    {JsonDump(CacheData(r, t)) : r \in {Rat(80), <<625, 10>>, Rat(0), Rat(-80)},
                                 t \in 0..2}

ForeignBytes ==
    { <<BadByte>>,
      <<LBrace, KeyTok("rate"), BadByte, RBrace>>,
      <<LBracket, RBracket>>,
      <<NumTok(<<"4", "2">>)>>,
      <<LBrace, RBrace>>,
      <<LBrace, KeyTok("updated_at"), StrTok(IsoFormatUtc(0)), RBrace>>,
      <<LBrace, KeyTok("rate"), NullTok, RBrace>>,
      <<LBrace, KeyTok("rate"), NumTok(<<"8", "0", ".", "0">>), RBrace,
        LBrace, KeyTok("rate"), NumTok(<<"9", "0", ".", "0">>), RBrace>> }

SampleBytes ==
    {SubSeq(d, 1, k) : d \in SampleDocs, k \in 0..6} \cup ForeignBytes

SampleFiles ==
    {NoFile} \cup
    {[exists |-> TRUE, readable |-> rd, bytes |-> b] :
         rd \in BOOLEAN, b \in SampleBytes}

InitLoad ==
    /\ fa \in SampleFiles
    /\ fb = None
    /\ fout = None
    /\ file = NoFile /\ clock = 1 /\ runs = 0 /\ stats = "None"
    /\ pc = [p \in Tasks |-> "idle"]
    /\ text = [p \in Tasks |-> << >>]
    /\ rub = [p \in Tasks |-> None]
    /\ xe = [p \in Tasks |-> None]
    /\ easy = [p \in Tasks |-> None]
    /\ cache = [p \in Tasks |-> EmptyDict]
    /\ replies = [p \in Tasks |-> << >>]
    /\ result = [p \in Tasks |-> NoResult]
    /\ calls = [p \in Tasks |-> << >>]
    /\ notes = NotesAt(TRUE)
    /\ use_db = TRUE /\ mainpc = "polling" /\ shutdown = ShutdownIdle /\ DbAtRest

ApplyLoad ==
    /\ fout = None
    /\ fout' = load(fa)
    /\ UNCHANGED <<file, clock, runs, stats, pc, text, rub, xe, easy, cache,
                   replies, result, calls, notes, fa, fb>>
    /\ UNCHANGED dbvars

SpecLoad == InitLoad /\ [][ApplyLoad]_vars

----------------------------------------------------------------------------
(* The start of main(): bootstrap of the database connection *)

InitBoot ==
    /\ file \in {NoFile, EarlierRecord}
    /\ stats = "None"
    /\ HandlersAtRest
    /\ notes = NotesAt(FALSE)
    /\ use_db \in BOOLEAN
    /\ mainpc = "start" /\ shutdown = ShutdownIdle
    /\ DbAtRest

\* connect_with_retries alone; every attempt ends (connect_timeout) and
\* every sleep ends, so a pending step is eventually taken
SpecRetry == InitBoot /\ [][NextRetry]_vars /\ WF_vars(NextRetry)

\* the bot from the start of main(): bootstrap, then messages, commands and
\* refresh jobs
NextBoot ==
    \/ NextRetry
    \/ MainAfterBoot
    \/ Next
    \/ NextCommands

SpecBoot == InitBoot /\ [][NextBoot]_vars

----------------------------------------------------------------------------
(* The end of main(): the wait on polling and shutdown_event, and the       *)
(* finally clause                                                           *)

HandlersUnchanged ==
    UNCHANGED <<file, clock, runs, stats, pc, text, rub, xe, easy, cache,
                replies, result, calls, fa, fb, fout>>

\* SIGTERM or SIGINT arrives: handle_shutdown_signal sets shutdown_event
\* (main.py 28-48, 151-152)
ShutdownSignal ==
    /\ mainpc # "complete" /\ ~shutdown.event
    /\ shutdown' = [shutdown EXCEPT !.event = TRUE]
    /\ HandlersUnchanged
    /\ UNCHANGED <<notes, use_db, mainpc, boot, conn, live, made, ops, closer,
                   ncalls>>

\* asyncio.wait returns because shutdown_task is done: the event is set, so
\* polling_task is cancelled and awaited (main.py 226-236)
ShutdownSeen ==
    /\ mainpc = "polling" /\ shutdown.event
    /\ mainpc' = "cancelling"
    /\ HandlersUnchanged
    /\ UNCHANGED <<notes, use_db, boot, conn, live, made, ops, closer, ncalls,
                   shutdown>>

\* the ways polling_task ends by itself
PollingEndings == {"finished", "failed"}

\* asyncio.wait returns because polling_task is done, finished or failed:
\* with the event set the task is awaited all the same, otherwise the try
\* block is over (main.py 226-238)
PollingEnds ==
    /\ mainpc = "polling"
    /\ \E how \in PollingEndings :
         mainpc' = IF shutdown.event THEN "cancelling" ELSE "stopping"
    /\ HandlersUnchanged
    /\ UNCHANGED <<notes, use_db, boot, conn, live, made, ops, closer, ncalls,
                   shutdown>>

\* what `await polling_task` does after cancel()
AwaitOutcomes == {"CancelledError", "returned", "Exception"}

\* `await polling_task` is over: CancelledError is caught by the inner
\* except, any other exception by `except Exception`; the finally clause
\* is next in every case (main.py 235-242)
PollingAwaited ==
    /\ mainpc = "cancelling"
    /\ \E out \in AwaitOutcomes : mainpc' = "stopping"
    /\ HandlersUnchanged
    /\ UNCHANGED <<notes, use_db, boot, conn, live, made, ops, closer, ncalls,
                   shutdown>>

\* the finally clause tells the admins that the bot has been stopped; an
\* exception of the notifier is caught and logged (main.py 242-247)
StopNotify ==
    /\ mainpc = "stopping"
    /\ \E out \in SendOutcomes :
         /\ notify_admins(out) \in {"returned", "raised"}
         /\ mainpc' = "closing_session"
    /\ notes' = [notes EXCEPT ![Main] = @ \o <<"stopped">>]
    /\ shutdown' = [shutdown EXCEPT !.steps = @ \o <<"notify">>]
    /\ HandlersUnchanged
    /\ UNCHANGED <<use_db, boot, conn, live, made, ops, closer, ncalls>>

\* `if db_conn` never passing
DbConnNever(st) == FALSE

\* `if db_conn` (main.py 253): db_conn is set together with stats_repo, when
\* connect_with_retries returned (main.py 166, 184-185)
DbConnEstablished(st) == st = "repo"

\* bot.session.close() returned; with a database connection its close() is
\* called, which returns at once without a handle and awaits ensure_closed
\* otherwise; without one the shutdown is complete (main.py 250-260,
\* connection_async.py 284-287)
SessionClosed ==
    /\ mainpc = "closing_session"
    /\ IF DbConnEstablished(stats)
       THEN /\ shutdown' = [shutdown EXCEPT !.steps = @ \o <<"session", "db">>]
            /\ IF conn # 0
               THEN /\ closer' = [CloserIdle EXCEPT !.pc = "closing", !.h = conn]
                    /\ mainpc' = "closing_db"
               ELSE /\ closer' = closer
                    /\ mainpc' = "complete"
       ELSE /\ shutdown' = [shutdown EXCEPT !.steps = @ \o <<"session">>]
            /\ closer' = closer
            /\ mainpc' = "complete"
    /\ HandlersUnchanged
    /\ UNCHANGED <<notes, use_db, boot, conn, live, made, ops, ncalls>>

\* db_conn.close() is over, returned or raised (logged): the shutdown is
\* complete (main.py 254-260)
DbClosed ==
    /\ mainpc = "closing_db" /\ closer.pc = "done"
    /\ closer' = CloserIdle
    /\ mainpc' = "complete"
    /\ HandlersUnchanged
    /\ UNCHANGED <<notes, use_db, boot, conn, live, made, ops, ncalls,
                   shutdown>>

\* the steps main() takes by itself once they are pending
MainProgress ==
    \/ NextRetry
    \/ MainAfterBoot
    \/ ShutdownSeen
    \/ PollingAwaited
    \/ StopNotify
    \/ SessionClosed
    \/ CloseReturns
    \/ CloseRaises
    \/ DbClosed

NextMain ==
    \/ MainProgress
    \/ ShutdownSignal
    \/ PollingEnds

\* main() from its start to "Bot shutdown complete".  Connection attempts,
\* sleeps, Telegram calls and closes all end, and the event loop keeps
\* turning, so a pending step of main() is eventually taken; signals and
\* the end of polling by itself are left to the environment
SpecMain == InitBoot /\ [][NextMain]_vars /\ WF_vars(MainProgress)

----------------------------------------------------------------------------
(* The connection manager under concurrent use: a manager that was never
   connected, or the one the bootstrap connected *)

InitDb ==
    /\ file = NoFile
    /\ HandlersAtRest
    /\ notes = NotesAt(TRUE)
    /\ use_db = TRUE /\ mainpc = "polling" /\ shutdown = ShutdownIdle
    /\ boot = BootIdle
    /\ conn \in {0, 1}
    /\ live = (IF conn = 1 THEN {1} ELSE {})
    /\ made = conn
    /\ stats = (IF conn = 1 THEN "repo" ELSE "None")
    /\ ops = [o \in Ops |-> OpIdle]
    /\ closer = CloserIdle
    /\ ncalls = 0

SpecDb == InitDb /\ [][NextDb]_vars

----------------------------------------------------------------------------
(* Properties *)

Last(q) == q[Len(q)]
OpsOf(p) == [i \in 1..Len(calls[p]) |-> calls[p][i].op]
HasOp(p, op) == \E i \in 1..Len(calls[p]) : calls[p][i].op = op
FirstOp(p, op) ==
    calls[p][CHOOSE i \in 1..Len(calls[p]) :
                 calls[p][i].op = op /\ \A j \in 1..(i - 1) : calls[p][j].op # op]

\* the amount of a numeric message is <= 0 or below 10,000
AmountRejected(t) ==
    /\ PyFloat(t).ok
    /\ \/ PyFloat(t).v[1] <= 0
       \/ PyFloat(t).v[1] < 10000 * PyFloat(t).v[2]

\* C1: a request whose amount is <= 0 or below 10,000 never calls Provider A,
\* Provider B, cache.load or cache.save, and ends with a rejection reply.
C1_RejectedBeforeProviders ==
    \A p \in Requests :
        (text[p] # << >> /\ AmountRejected(text[p])) =>
            /\ calls[p] = << >>
            /\ pc[p] \in {"stats", "done"}
            /\ result[p] = NoResult
            /\ pc[p] = "done" =>
                   /\ replies[p] # << >>
                   /\ Last(replies[p]) \in {"positive", "minimum"}

C1_Witness ==
    \E p \in Requests :
        /\ pc[p] = "done"
        /\ text[p] = <<"9", "9", "9", "9">>
        /\ Last(replies[p]) = "minimum"

\* the Easystaff rate a request actually obtained: the live fetch's if it
\* made one, else the one its first load() returned
ObtainedRate(p) ==
    IF HasOp(p, "fetchB_ret") THEN FirstOp(p, "fetchB_ret").ret
    ELSE IF HasOp(p, "load") THEN DictGet(FirstOp(p, "load").ret, "rate")
    ELSE None

\* the request got as far as the check of the two raw values
ReachedValidation(p) ==
    pc[p] = "done" /\ HasOp(p, "xe_ret") /\ ObtainedRate(p) # None

C3_RecommendationRule ==
    fout # None =>
        LET a  == fa[1]
            b  == fb[1]
            lo == IF a < b THEN a ELSE b
            hi == IF a < b THEN b ELSE a
        IN  /\ fout = <<IF 100 * (hi - lo) <= 10 * lo THEN hi ELSE lo, 1>>
            /\ (a = 100 /\ b = 105) => fout = <<105, 1>>
            /\ (a = 100 /\ b = 130) => fout = <<100, 1>>

C3_Witness == fa = <<100, 1>> /\ fb = <<110, 1>> /\ fout = <<110, 1>>

\* the timestamp is an instant with an explicit zero UTC offset
IsUtcIso(ts) == Len(ts) = 2 /\ ts[1] \in Nat /\ ts[2] = "+00:00"

\* C4: a save(r) that returned True, followed at once by load(), yields a
\* record whose rate equals r, whose updated_at is a UTC ISO-8601 timestamp,
\* and that holds nothing else (no trace of the previous record).
C4_SaveLoadRoundTrip ==
    \A p \in Tasks :
        \A i \in 1..(Len(calls[p]) - 1) :
            ( /\ calls[p][i].op = "save"
              /\ calls[p][i].ret = TRUE
              /\ calls[p][i + 1].op = "load" ) =>
                LET rec == calls[p][i + 1].ret
                IN  /\ Len(rec) = 2
                    /\ DictKeys(rec) = {"rate", "updated_at"}
                    /\ REq(DictGet(rec, "rate"), calls[p][i].arg)
                    /\ IsUtcIso(DictGet(rec, "updated_at"))
                    /\ calls[p][i + 1].seen = "record"

\* a save over an existing record, then the reload
C4_Witness ==
    \E p \in Requests :
        /\ HasOp(p, "save")
        /\ FirstOp(p, "save").ret = TRUE
        /\ REq(FirstOp(p, "save").arg, <<625, 10>>)
        /\ FirstOp(p, "save").seen = "record"
        /\ Last(calls[p]).op = "load"
        /\ Last(calls[p]).ret # EmptyDict

\* the backing file is in a bad state: absent, unreadable, not UTF-8, not a
\* complete JSON document, not an object, or an object without a number
\* under "rate"
BadFile(f) ==
    \/ ~f.exists
    \/ ~f.readable
    \/ JsonLoad(f.bytes).status # "ok"
    \/ ~JsonLoad(f.bytes).isDict
    \/ DictGet(JsonLoad(f.bytes).value, "rate") = None

\* C5: load() never raises and returns an empty record for every bad state
\* of the backing file (absent, unreadable or undecodable, truncated or
\* invalid JSON, valid JSON that is no rate record).
C5_LoadNeverRaises ==
    (fout # None /\ BadFile(fa)) =>
        /\ fout.raised = "none"
        /\ fout.ret = EmptyDict

\* C6: with requests and refresh jobs interleaving at their suspension
\* points, every load() finds either no file or one complete record, and
\* returns that record whole.
C6_LoadsSeeWholeRecords ==
    \A p \in Tasks :
        \A i \in 1..Len(calls[p]) :
            calls[p][i].op = "load" =>
                /\ calls[p][i].seen \in {"absent", "record"}
                /\ calls[p][i].seen = "record" =>
                       /\ DictKeys(calls[p][i].ret) = {"rate", "updated_at"}
                       /\ DictGet(calls[p][i].ret, "updated_at") # None
                /\ calls[p][i].seen = "absent" => calls[p][i].ret = EmptyDict

\* C7: whenever a save() touches the file, completely or not, the file
\* afterwards holds one complete record (the new one); it is never left
\* empty or truncated.
C7_CrashTolerantOverwrite ==
    [][file' # file => FileKind(file') = "record"]_vars

\* C8: the cache is empty or holds a rate strictly greater than 0.
C8_CachedRatePositive ==
    LET r == DictGet(load(file).ret, "rate")
    IN  r # None => r[1] > 0

\* the refresh of job j ends in this step with a fetch that raised or
\* returned None, zero or a negative rate
RefreshFailsNow(j) ==
    /\ pc[j] = "easy" /\ pc'[j] = "done"
    /\ \E i \in 1..Len(calls'[j]) :
           \/ calls'[j][i].op = "fetchB_raise"
           \/ /\ calls'[j][i].op = "fetchB_ret"
              /\ (calls'[j][i].ret = None \/ calls'[j][i].ret[1] <= 0)

\* C9: a refresh whose fetch raises or returns None, zero or a negative rate
\* notifies the admins of an error, does not call save and leaves the cache
\* file as it was.
C9_FailedRefreshKeepsCache ==
    [][\A j \in Jobs :
          RefreshFailsNow(j) =>
              /\ file' = file
              /\ \A i \in 1..Len(calls'[j]) : calls'[j][i].op # "save"
              /\ notes'[j] # << >>
              /\ notes'[j][Len(notes'[j])] \in {"refresh_failed", "refresh_invalid"}
      ]_vars

C9_Witness ==
    \E j \in Jobs :
        /\ pc[j] = "done"
        /\ Last(calls[j]).op = "fetchB_ret"
        /\ Last(calls[j]).ret = Rat(0)
        /\ notes[j] = <<"refresh_invalid">>
        /\ FileKind(file) = "record"

\* the request's first load() found no rate
Missed(p) ==
    HasOp(p, "load") /\ DictGet(FirstOp(p, "load").ret, "rate") = None

\* C10: a request that finds no cached rate makes one live Provider B fetch,
\* then save, then load, in this order; if the fetch raises or yields no
\* rate it ends with an error reply, saves nothing and emits no result.
C10_MissFetchSaveReload ==
    \A p \in Requests :
        Missed(p) =>
            \/ /\ pc[p] = "easy"
               /\ OpsOf(p) = <<"xe", "xe_ret", "load", "fetchB">>
            \/ /\ pc[p] = "done"
               /\ OpsOf(p) = <<"xe", "xe_ret", "load", "fetchB",
                               "fetchB_ret", "save", "load">>
               /\ calls[p][5].ret # None
               /\ calls[p][6].arg = calls[p][5].ret
            \/ /\ pc[p] = "done"
               /\ OpsOf(p) = <<"xe", "xe_ret", "load", "fetchB", "fetchB_ret">>
               /\ calls[p][5].ret = None
               /\ Last(replies[p]) = "failed_easy"
               /\ ~result[p].present
            \/ /\ pc[p] = "done"
               /\ OpsOf(p) = <<"xe", "xe_ret", "load", "fetchB", "fetchB_raise">>
               /\ Last(replies[p]) = "error"
               /\ ~result[p].present

C10_Witness ==
    \E p \in Requests :
        /\ pc[p] = "done"
        /\ Missed(p)
        /\ OpsOf(p) = <<"xe", "xe_ret", "load", "fetchB",
                        "fetchB_ret", "save", "load">>
        /\ result[p].present

\* the request's first load() found a rate
Hit(p) ==
    HasOp(p, "load") /\ DictGet(FirstOp(p, "load").ret, "rate") # None

\* C11: a request that finds a rate in the cache, whatever its updated_at,
\* uses that rate, makes no Provider B fetch and no save.
C11_HitUsesCachedRate ==
    \A p \in Requests :
        Hit(p) =>
            /\ pc[p] = "done"
            /\ OpsOf(p) = <<"xe", "xe_ret", "load">>
            /\ easy[p] = DictGet(FirstOp(p, "load").ret, "rate")
            /\ result[p].present =>
                   /\ result[p].rate = DictGet(FirstOp(p, "load").ret, "rate")
                   /\ result[p].updated_at =
                          DictGet(FirstOp(p, "load").ret, "updated_at")
                   /\ REq(result[p].easy_raw, RDiv(rub[p], result[p].rate))

\* a result computed from the record left by an earlier run
C11_Witness ==
    \E p \in Requests :
        /\ Hit(p)
        /\ result[p].present
        /\ result[p].updated_at = IsoFormatUtc(0)
        /\ result[p].rate = Rat(80)

\* C12: when cache-miss requests interleave and save, the cache afterwards
\* holds exactly the record of the save made last: a request that found no
\* file, then saved over the record another task had written meanwhile,
\* leaves one complete record with its own rate.
C12_LastWriteWins ==
    \A p \in Requests :
        ( /\ pc[p] = "done" /\ Missed(p) /\ HasOp(p, "save")
          /\ FirstOp(p, "load").seen = "absent"
          /\ FirstOp(p, "save").seen = "record" ) =>
            /\ FileKind(file) = "record"
            /\ DictGet(load(file).ret, "rate") = FirstOp(p, "save").arg

\* how often step x occurs in the log of operation o
Count(lg, x) == Cardinality({i \in 1..Len(lg) : lg[i] = x})

\* C13: ensure_connected with no handle connects; after a failed ping,
\* whatever was raised, it reconnects instead of raising; and when the
\* connect succeeds it returns normally with self.conn, and the cursor then
\* taken, on the handle just established.
C13_EnsureConnectedRecovers ==
    [][\A o \in Ops :
          /\ (ops[o].pc = "idle" /\ ops'[o].pc # "idle" /\ conn = 0) =>
                 /\ ops'[o].pc = "connecting"
                 /\ ops'[o].err = None
          /\ (ops[o].pc = "ping" /\ ops'[o].pc # "ping"
                /\ Count(ops'[o].log, "ping_fail") = 1) =>
                 /\ ops'[o].pc \in {"closing", "connecting"}
                 /\ ops'[o].err = None
          /\ (ops[o].pc = "closing" /\ ops'[o].pc # "closing") =>
                 ops'[o].pc = "connecting"
          /\ (ops[o].pc = "connecting" /\ Count(ops'[o].log, "connect_ok") = 1) =>
                 /\ ops'[o].pc = "body"
                 /\ ops'[o].err = None
                 /\ conn' = made + 1 /\ conn' \in live' /\ conn' \notin live
                 /\ ops'[o].new = conn'
                 /\ ops'[o].cur = conn'
      ]_vars

\* a ping failed, and the operation now works on the handle it established,
\* which is no earlier handle
C13_Witness ==
    \E o \in Ops :
        /\ ops[o].pc = "body"
        /\ ops[o].log = <<"ensure", "ping", "ping_fail", "ensure_closed",
                          "connect", "connect_ok", "cursor">>
        /\ ops[o].cur = conn /\ conn = ops[o].new /\ conn > 1
        /\ conn \in live

\* C14: a cursor is handed out only after the health check of the same
\* call, is closed exactly once however the block ends (normally, by an
\* error, by cancellation), and what the block raised is what the caller of
\* get_cursor() sees.
C14_CursorScoped ==
    \A o \in Ops :
        LET lg == ops[o].log
        IN  /\ Count(lg, "cursor") <= 1
            /\ Count(lg, "cur_close") <= Count(lg, "cursor")
            /\ Count(lg, "cursor") = 1 =>
                   /\ lg[1] = "ensure"
                   /\ \E i \in 2..Len(lg) :
                        /\ lg[i] = "cursor"
                        /\ lg[i - 1] \in {"ping_ok", "connect_ok"}
                   /\ ops[o].cur # 0
            /\ (ops[o].pc = "done" /\ Count(lg, "cursor") = 1) =>
                   /\ Count(lg, "cur_close") = 1
                   /\ lg[Len(lg)] = "cur_close"
                   /\ ops[o].err = ops[o].thrown
            /\ ops[o].pc \in {"body", "cur_closing"} => Count(lg, "cur_close") = 0

\* a block that was cancelled: cursor closed once, CancelledError passed on
C14_Witness ==
    \E o \in Ops :
        /\ ops[o].pc = "done"
        /\ ops[o].thrown = <<"CancelledError", "body">>
        /\ ops[o].err = <<"CancelledError", "body">>
        /\ Count(ops[o].log, "cur_close") = 1

\* C15: close() never raises and leaves conn = None from every state, also
\* when ensure_closed fails; with conn already None it does nothing.
C15_CloseIdempotent ==
    [][(closer.pc # "done" /\ closer'.pc = "done") =>
           /\ conn' = 0
           /\ closer'.err = None
           /\ (closer.pc = "idle" /\ conn = 0) =>
                  (live' = live /\ made' = made /\ closer'.h = 0)
      ]_vars

\* a close() after an earlier close() has found conn None and returned
C15_Witness ==
    /\ closer.pc = "done"
    /\ closer.h = 0
    /\ ~closer.failed
    /\ conn = 0
    /\ ncalls >= 2
    /\ made >= 1

\* C18: at most one established and unclosed connection exists, and it is
\* the one self.conn refers to.
C18_SingleLiveHandle ==
    /\ Cardinality(live) <= 1
    /\ live \subseteq {conn}

\* C19: when the connect() of a health check fails, the error leaves that
\* get_cursor() call with no cursor created and after a single connect
\* attempt; no other operation and no handle is touched by it, and an
\* operation ends with a connect error only if its own connect failed.
C19_ReconnectFailurePropagates ==
    [][\A o \in Ops :
          /\ (ops[o].pc = "connecting"
                /\ Count(ops'[o].log, "connect_fail") > 0) =>
                 /\ ops'[o].pc = "done"
                 /\ ops'[o].err # None /\ ops'[o].err[2] = "connect"
                 /\ ops'[o].cur = 0
                 /\ Count(ops'[o].log, "cursor") = 0
                 /\ Count(ops'[o].log, "connect") = 1
                 /\ \A q \in Ops \ {o} : ops'[q] = ops[q]
                 /\ UNCHANGED <<conn, live, made, closer>>
          /\ (ops'[o].err # None /\ ops'[o].err[2] = "connect") =>
                 Count(ops'[o].log, "connect_fail") = 1
      ]_vars

\* one operation's reconnect has failed while the other, whose own
\* reconnect succeeded, holds a cursor
C19_Witness ==
    \E o, q \in Ops :
        /\ o # q
        /\ ops[o].pc = "done"
        /\ ops[o].err = <<"OperationalError", "connect">>
        /\ Count(ops[o].log, "ping_fail") = 1
        /\ ops[q].pc = "body"
        /\ Count(ops[q].log, "ping_fail") = 1

\* C16: when every attempt fails, connect_with_retries raises the error of
\* the final attempt; when an attempt succeeds it returns that attempt's
\* connection and has made no attempt beyond it.
C16_RaisesLastError ==
    /\ boot.pc = "raised" =>
           /\ boot.attempt = boot.retries
           /\ Len(boot.errs) = boot.retries
           /\ boot.out = <<"err">> \o boot.errs[boot.retries]
           /\ boot.out[3] = boot.retries
    /\ boot.pc = "returned" =>
           /\ Len(boot.errs) = boot.attempt - 1
           /\ boot.out = <<"conn", made>>
           /\ conn = made /\ made \in live
           /\ made = 1

\* all of three or more attempts failed, the first and the last differently
C16_Witness ==
    /\ boot.pc = "raised"
    /\ boot.retries >= 3
    /\ boot.errs[1][1] # boot.errs[boot.retries][1]

\* attempts and sleeps stay within `retries`
BootBounded ==
    /\ boot.attempt <= boot.retries
    /\ boot.sleeps <= boot.attempt
    /\ boot.pc = "sleeping" => (boot.attempt < boot.retries /\ boot.sleeps = boot.attempt)
    /\ boot.pc \in {"attempting", "returned", "raised"} =>
           boot.sleeps = boot.attempt - 1
    /\ boot.pc # "idle" => boot.sleeps <= boot.retries - 1

\* C17: connect_with_retries makes at most `retries` attempts and at most
\* retries-1 sleeps, none after the final failed attempt, and always ends by
\* returning a connection or raising.
C17_BootstrapTerminates ==
    /\ []BootBounded
    /\ (boot.pc = "attempting") ~> (boot.pc \in {"returned", "raised"})

C17_Witness ==
    /\ boot.pc = "raised"
    /\ boot.retries >= 3
    /\ boot.attempt = boot.retries
    /\ boot.sleeps = boot.retries - 1

\* the bootstrap was tried and failed: USE_DB is on, yet main() runs
\* without a repository
Degraded == use_db /\ mainpc = "polling" /\ stats = "None"

\* C20: when the bootstrap fails after all retries, main() goes on to
\* polling with stats_repo = None; from then on no request and no command
\* waits on a database operation, and every request still gets its reply.
C20_DegradedMode ==
    /\ [][(boot.pc = "raised" /\ boot'.pc # "raised") =>
              (mainpc' = "polling" /\ stats' = "None")]_vars
    /\ [](Degraded =>
              /\ \A p \in Tasks : pc[p] \notin DbWaits
              /\ \A p \in Requests : pc[p] = "done" => replies[p] # << >>
              /\ conn = 0 /\ live = {})

\* a conversion answered with a result after the bootstrap had failed
C20_Witness ==
    /\ Degraded
    /\ \E p \in Requests :
         pc[p] = "done" /\ result[p].present /\ Last(replies[p]) = "result"

----------------------------------------------------------------------------
(* Notifications, cache write failures and display values *)

\* connect_with_retries has raised and main() moves on in this step
BootstrapFailsNow == boot.pc = "raised" /\ boot'.pc # "raised"

\* C21: the notifier is called on every refresh failure and on bootstrap
\* failure (all connection retries exhausted) with an alert about the
\* failure, and a failing notification never turns into an exception in the
\* refresh or start-up path.
C21_FailuresNotified ==
    [][/\ \A j \in Jobs :
            RefreshFailsNow(j) =>
                /\ Last(notes'[j]) \in {"refresh_failed", "refresh_invalid"}
                /\ pc'[j] = "done"
       /\ BootstrapFailsNow =>
            /\ \E i \in 1..Len(notes'[Main]) : notes'[Main][i] # "launched"
            /\ mainpc' = "polling"
      ]_vars

\* task p calls save() in this step
SavesNow(p) ==
    /\ Len(calls'[p]) > Len(calls[p])
    /\ \E i \in (Len(calls[p]) + 1)..Len(calls'[p]) : calls'[p][i].op = "save"

\* the save event task p adds in this step
SaveEvent(p) ==
    calls'[p][CHOOSE i \in (Len(calls[p]) + 1)..Len(calls'[p]) :
                  calls'[p][i].op = "save"]

\* C22: save() never raises on a write failure but returns False: a save
\* that returned True left its record in the file, and after a save that
\* returned False load() raises nothing and shows either an empty cache or
\* what it showed before the save; the caller goes on to its normal end.
C22_SaveFailureContained ==
    [][\A p \in Tasks :
          SavesNow(p) =>
              /\ pc'[p] = "done"
              /\ load(file').raised = "none"
              /\ SaveEvent(p).ret = TRUE =>
                     /\ FileKind(file') = "record"
                     /\ DictGet(load(file').ret, "rate") = SaveEvent(p).arg
              /\ SaveEvent(p).ret = FALSE =>
                     load(file').ret \in {EmptyDict, load(file).ret}
      ]_vars

\* a finished task whose save() failed after the open had emptied a file
\* that held a record: the cache now reads as empty
C22_Witness ==
    \E p \in Tasks :
        /\ pc[p] = "done"
        /\ HasOp(p, "save")
        /\ FirstOp(p, "save").ret = FALSE
        /\ FirstOp(p, "save").seen = "record"
        /\ load(file).ret = EmptyDict

\* comparison and difference of Decimals without writing out their digits
DecLtPos(a, b) ==
    IF NumDigits(a.m) + a.e # NumDigits(b.m) + b.e
    THEN NumDigits(a.m) + a.e < NumDigits(b.m) + b.e
    ELSE IF a.e >= b.e THEN a.m * Pow10(a.e - b.e) < b.m
         ELSE a.m < b.m * Pow10(b.e - a.e)
DecNeg(a) == [m |-> 0 - a.m, e |-> a.e]
DecLt(a, b) ==
    IF a.m <= 0 /\ b.m > 0 THEN TRUE
    ELSE IF a.m < 0 /\ b.m = 0 THEN TRUE
    ELSE IF a.m >= 0 /\ b.m <= 0 THEN FALSE
    ELSE IF a.m > 0 THEN DecLtPos(a, b)
    ELSE DecLtPos(DecNeg(b), DecNeg(a))
DecLe(a, b) == ~DecLt(b, a)
DecSub(a, b) ==
    IF a.e = b.e THEN [m |-> a.m - b.m, e |-> a.e]
    ELSE IF a.e > b.e THEN [m |-> a.m * Pow10(a.e - b.e) - b.m, e |-> b.e]
    ELSE [m |-> a.m - b.m * Pow10(b.e - a.e), e |-> a.e]

Cent == [m |-> 1, e |-> -2]
Half == [m |-> 5, e |-> -1]

\* the presentation step has run
Displayed == fout # None /\ fb = None /\ fa \in DisplayValues

\* C23: for every non-negative x the displayed value trunc2(x) exists and is
\* x truncated toward zero to two decimals: trunc2(x) <= x < trunc2(x) + 0.01
\* (1342.455 gives 1342.45, 10.999 gives 10.99).
C23_TruncatedTowardZero ==
    Displayed =>
        /\ fout.raised = "none"
        /\ DecLe(fout.show, fa)
        /\ DecLt(DecSub(fa, fout.show), Cent)
        /\ fout.show.e >= -2
        /\ fa = [m |-> 1342455, e |-> -3] => fout.show = [m |-> 134245, e |-> -2]
        /\ fa = [m |-> 10999, e |-> -3] => fout.show = [m |-> 1099, e |-> -2]

StatsFromStranger(c) == text[c] = <<"/stats", "user">>

C27_BackoffDelay ==
    /\ \A n \in 1..MaxRetries :
          /\ RLe(Backoff(n), cap)
          /\ RLe(Backoff(n), Backoff(n + 1))
          /\ REq(Backoff(n), RMulInt(base, Pow2(n - 1))) \/ REq(Backoff(n), cap)
    /\ REq(Backoff(1), <<1, 2>>) /\ REq(Backoff(2), Rat(1))
    /\ REq(Backoff(3), Rat(2)) /\ REq(Backoff(4), Rat(4))
    /\ REq(Backoff(5), Rat(5))
    /\ boot.pc = "sleeping" =>
          /\ RLe(Backoff(boot.attempt), boot.delay)
          /\ RLt(boot.delay, RMul(<<14, 10>>, Backoff(boot.attempt)))
    /\ boot.pc # "sleeping" => boot.delay = None

\* the sleep after the fifth failed attempt: capped at 5 s, then jittered
C27_Witness ==
    /\ boot.pc = "sleeping"
    /\ boot.attempt = 5
    /\ RLt(cap, boot.delay)

\* the refresh of job j ends in this step
RefreshEndsNow(j) == pc[j] = "easy" /\ pc'[j] # "easy"

\* C28: a scheduled refresh never lets an exception out of _update_rate,
\* whatever the provider, the cache or the notifier does: every refresh ends
\* by returning, its slot then serves the next cron tick, and the step in
\* which it ends leaves every conversion request as it was.
C28_RefreshNeverRaises ==
    /\ [](\A j \in Jobs : pc[j] \in {"idle", "easy", "done"})
    /\ [][\A j \in Jobs :
             /\ RefreshEndsNow(j) =>
                    /\ pc'[j] = "done"
                    /\ notes'[j] # << >>
                    /\ \A p \in Requests :
                           /\ pc'[p] = pc[p]
                           /\ replies'[p] = replies[p]
                           /\ result'[p] = result[p]
             /\ (pc[j] = "done" /\ pc'[j] # "done") => pc'[j] = "idle"
      ]_vars

\* a refresh whose fetch raised has ended while a conversion request is
\* waiting for its provider
C28_Witness ==
    \E j \in Jobs, p \in Requests :
        /\ pc[j] = "done"
        /\ Last(calls[j]).op = "fetchB_raise"
        /\ Last(notes[j]) = "refresh_failed"
        /\ pc[p] \in {"xe", "easy"}

\* the replies of request p other than the notice of handle_error
ConversionReplies(q) == SelectSeq(q, LAMBDA r : r # "error")

\* request p is past a statistics update that failed
StatsFailed(p) ==
    /\ Len(replies[p]) >= 1 /\ replies[p][1] = "error"
    /\ pc[p] = "xe" \/ Len(replies[p]) >= 2

\* C29: the statistics update never breaks the user flow: when it ends,
\* by returning or by raising, the request goes on to validation with the
\* same amount, the same verdict and the same call of Provider A, and a
\* request whose statistics update failed still ends with its conversion
\* reply, computed from the same values.
C29_StatsBestEffort ==
    /\ [][\A p \in Requests :
             (pc[p] = "stats" /\ pc'[p] # "stats") =>
                 LET v == Verdict(text[p])
                 IN  /\ pc'[p] = IF v = "valid" THEN "xe" ELSE "done"
                     /\ rub'[p] = PyFloat(text[p]).v
                     /\ ConversionReplies(replies'[p]) =
                            IF v = "valid" THEN << >> ELSE <<v>>
                     /\ v = "valid" => calls'[p] = <<EvXe(PyFloat(text[p]).v)>>
      ]_vars
    /\ [](\A p \in Requests :
             (pc[p] = "done" /\ StatsFailed(p)) =>
                 /\ Len(replies[p]) >= 2
                 /\ Verdict(text[p]) # "valid" => replies[p][2] = Verdict(text[p])
                 /\ result[p].present =>
                        /\ Last(replies[p]) = "result"
                        /\ result[p] = ConversionResult(xe[p],
                                            EasyRaw(rub[p], easy[p]), easy[p], cache[p]))

\* a conversion answered with a result after its statistics update failed
C29_Witness ==
    \E p \in Requests :
        /\ pc[p] = "done"
        /\ StatsFailed(p)
        /\ result[p].present
        /\ replies[p][1] = "error" /\ Last(replies[p]) = "result"

\* request p missed the cache, fetched a rate and its save() returned False
SaveFailedOnMiss(p) ==
    /\ Missed(p)
    /\ HasOp(p, "save")
    /\ FirstOp(p, "save").ret = FALSE

\* C30: on a cache miss where the Provider B fetch succeeds but save()
\* returns False the request is not aborted: it ends without an error reply,
\* and with a positive fetched rate and a valid Provider A value it ends
\* with a conversion result computed from the fetched rate.
C30_ProceedsWithFetchedRate ==
    \A p \in Requests :
        (pc[p] = "done" /\ SaveFailedOnMiss(p)) =>
            LET r == FirstOp(p, "save").arg
                b == EasyRaw(rub[p], r)
            IN  /\ Last(replies[p]) \in {"result", "invalid_rate"}
                /\ notes[p] = << >> \/ StatsFailed(p)
                /\ easy[p] = r
                /\ RawValid(xe[p], b) =>
                       /\ Last(replies[p]) = "result"
                       /\ result[p] = ConversionResult(xe[p], b, r, cache[p])
                       /\ result[p].rate = r
                       /\ REq(result[p].easy_raw, RDiv(rub[p], r))

\* a result from the fetched rate 62.5 although nothing could be saved: the
\* cache read back is empty and the reply carries no update time
C30_Witness ==
    \E p \in Requests :
        /\ pc[p] = "done"
        /\ SaveFailedOnMiss(p)
        /\ result[p].present
        /\ REq(result[p].rate, <<125, 2>>)
        /\ result[p].updated_at = None
        /\ cache[p] = EmptyDict

\* position of the first event op in the calls of p (0 if there is none)
IndexOfOp(p, op) ==
    IF HasOp(p, op)
    THEN CHOOSE i \in 1..Len(calls[p]) :
             calls[p][i].op = op /\ \A j \in 1..(i - 1) : calls[p][j].op # op
    ELSE 0

\* the Provider A fetch of request p raises in this step
XeFailsNow(p) == pc[p] = "xe" /\ pc'[p] = "done" /\ ~HasOp(p, "xe_ret")'

\* C36: Provider A is contacted for every valid request and before the
\* cache is consulted; when the Provider A fetch fails (get_rate raises) the
\* request ends with an error reply, Provider B is not contacted and the
\* cache file is left as it was.
C36_ProviderAFirst ==
    /\ [](\A p \in Requests :
             /\ (pc[p] \in {"xe", "easy"} \/ HasOp(p, "load") \/ HasOp(p, "fetchB")) =>
                    /\ Verdict(text[p]) = "valid"
                    /\ calls[p][1] = EvXe(rub[p])
             /\ HasOp(p, "load") => IndexOfOp(p, "xe") < IndexOfOp(p, "load")
             /\ HasOp(p, "fetchB") => IndexOfOp(p, "load") < IndexOfOp(p, "fetchB")
             /\ (pc[p] = "done" /\ Verdict(text[p]) = "valid") => HasOp(p, "xe"))
    /\ [][\A p \in Requests :
             XeFailsNow(p) =>
                 /\ replies'[p] = replies[p] \o <<"error">>
                 /\ file' = file
                 /\ calls'[p] = calls[p]
                 /\ ~HasOp(p, "fetchB") /\ ~HasOp(p, "load") /\ ~HasOp(p, "save")
                 /\ ~result'[p].present
      ]_vars

\* a request ended by a Provider A failure while the cache held no record
C36_Witness ==
    \E p \in Requests :
        /\ pc[p] = "done"
        /\ OpsOf(p) = <<"xe">>
        /\ Last(replies[p]) = "error"
        /\ FileKind(file) = "absent"

\* the refresh of job j reports success to the admins in this step
ReportsSuccessNow(j) ==
    /\ RefreshEndsNow(j)
    /\ notes'[j] # << >>
    /\ Last(notes'[j]) = "refresh_success"

\* C33: a scheduled refresh sends the success notification with the new
\* rate only if the cache holds that rate afterwards: when save() returns
\* False the refresh does not report success.
C33_SuccessOnlyIfSaved ==
    [][\A j \in Jobs :
          ReportsSuccessNow(j) =>
              /\ Last(calls'[j]).op = "save"
              /\ Last(calls'[j]).ret = TRUE
              /\ DictGet(load(file').ret, "rate") = Last(calls'[j]).arg
      ]_vars

\* C34: in every conversion reply the Easystaff rate shown and the
\* 'updated on' timestamp shown come from the same cache record, under
\* every interleaving and also when the cache-miss save fails: a timestamp
\* is never shown with a rate other than the one of its record.
C34_RateAndTimestampAgree ==
    \A p \in Requests :
        (result[p].present /\ result[p].updated_at # None) =>
            /\ DictGet(cache[p], "updated_at") = result[p].updated_at
            /\ DictGet(cache[p], "rate") # None
            /\ REq(DictGet(cache[p], "rate"), result[p].rate)

\* the connect() of operation o fails in this step, after it closed the
\* handle the manager held
ReconnectFailsNow(o) ==
    /\ ops[o].pc = "connecting" /\ ops'[o].pc = "done"
    /\ ops'[o].err # None /\ ops'[o].err[2] = "connect"
    /\ ops[o].h # 0

\* C35: after connect() fails during a reconnect the manager does not keep
\* the stale handle it has just closed: conn is None or a live handle.
C35_NoStaleHandleKept ==
    [][\A o \in Ops :
          ReconnectFailsNow(o) => (conn' = 0 \/ conn' \in live')
      ]_vars

\* operation o is inside its get_cursor() block, its cursor open
InBlock(o) == ops[o].pc = "body" /\ ops[o].cur # 0

\* C32: no connection handle is closed while a scoped operation still holds
\* an open cursor on it: while one task is inside a get_cursor() block, the
\* reconnect of another task's failed health check does not close the first
\* task's connection (steps of close() set aside).
C32_NoCloseUnderCursor ==
    [][\A o \in Ops :
          (InBlock(o) /\ ops[o].cur \in live /\ closer' = closer) =>
              ops[o].cur \in live'
      ]_vars

\* the clean-up steps main() is to take, in order
CleanupSteps(db) ==
    <<"notify", "session">> \o (IF db THEN <<"db">> ELSE << >>)

IsPrefix(a, b) == Len(a) <= Len(b) /\ a = SubSeq(b, 1, Len(a))

InPollingPhase(m) == m \in {"polling", "cancelling"}

\* C31: every exit of main() from the polling phase (shutdown signal,
\* polling over, exception in the main loop) goes to the clean-up, which
\* attempts the "stopped" notification first, then closes the bot session,
\* then closes the database connection if one was established; and after a
\* shutdown signal main() eventually reaches "Bot shutdown complete".
C31_OrderlyShutdown ==
    /\ [][(InPollingPhase(mainpc) /\ ~InPollingPhase(mainpc'))
            => mainpc' = "stopping"]_vars
    /\ [](IsPrefix(shutdown.steps, CleanupSteps(stats = "repo")))
    /\ [](Len(shutdown.steps) >= 1 => Last(notes[Main]) = "stopped")
    /\ [](mainpc = "complete"
            => /\ shutdown.steps = CleanupSteps(stats = "repo")
               /\ conn = 0)
    /\ (shutdown.event ~> mainpc = "complete")

\* C31 witness: a shutdown signal arrived while the bot was polling with a
\* database connection, and main() has completed its three clean-up steps.
C31_Witness ==
    /\ mainpc = "complete" /\ shutdown.event
    /\ stats = "repo" /\ made >= 1 /\ live = {}
    /\ shutdown.steps = <<"notify", "session", "db">>
    /\ notes[Main] = <<"launched", "stopped">>

====
